---- MODULE Spec2Model ----
(***************************************************************************)
(* OrdValidator (src/src/utils/docFormatter.js): the metadata validator of *)
(* the ORD MCP server.  One validateMetadata call is modelled as a program *)
(* counter that runs the phases of the method in the order of the code;    *)
(* the metadata document and the strict flag are the call's arguments.     *)
(* JavaScript values are tagged records, strings are sequences of          *)
(* one-character strings so that the regular expressions and the length    *)
(* rules of the code are computed, not assumed.                            *)
(***************************************************************************)
EXTENDS Integers, Sequences, FiniteSets, TLC

VARIABLES
  metadata,        \* the document passed to validateMetadata
  strict,          \* its strict argument
  pc,              \* the position of the call in progress
  result,          \* the result object of the call in progress
  raised,          \* whether the call threw to its caller
  rules,           \* this.validationRules of the shared OrdValidator
  catalog,         \* ORD_CONCEPTS
  previous,        \* the calls completed on the validator: arguments and result
  calls,           \* their number
  request,         \* the entry point called and its argument
  fetched,         \* what the specification request comes back with
  response,        \* what the entry point returned or threw
  packageJson,     \* what reading package.json gives validateCapProject
  suggestionLevel, \* the suggestionLevel argument of validateCapProject
  body,            \* req.body of the request POST /mcp is handling
  sent,            \* the responses sent on its res, in order
  cache,           \* this.cache of the OrdDocumentationIndexer
  before,          \* this.cache as it was when its last method was called
  lastUpdated,     \* its this.lastUpdated
  op,              \* the method of the indexer that ran last
  requests         \* by cache key, the network requests it made: TRUE for
                   \* one that succeeded, FALSE for one that failed

validatorVars == <<rules, previous, calls>>

toolVars == <<catalog, request, fetched, response>>

projectVars == <<packageJson, suggestionLevel>>

httpVars == <<body, sent>>

indexerVars == <<cache, before, lastUpdated, op, requests>>

vars ==
  <<metadata, strict, pc, result, raised, rules, catalog, previous, calls,
    request, fetched, response, packageJson, suggestionLevel, body, sent,
    cache, before, lastUpdated, op, requests>>

(***************************************************************************)
(* JavaScript values                                                       *)
(***************************************************************************)
Undef == [k |-> "undefined"]

Null == [k |-> "null"]

Str(s) == [k |-> "string", s |-> s]

Num(n) == [k |-> "number", n |-> n]

Arr(a) == [k |-> "array", a |-> a]

Obj(f) == [k |-> "object", f |-> f]

\* ToBoolean: what `if (v)`, `!v`, `a && b`, `a || b` test.
Truthy(v) ==
  CASE v.k = "undefined" -> FALSE
    [] v.k = "null" -> FALSE
    [] v.k = "string" -> v.s # <<>>
    [] v.k = "number" -> v.n # 0
    [] OTHER -> TRUE

\* typeof v
TypeOf(v) ==
  CASE v.k = "undefined" -> "undefined"
    [] v.k = "string" -> "string"
    [] v.k = "number" -> "number"
    [] OTHER -> "object"

\* Reading a property of null or undefined throws a TypeError.
ReadThrows(v) == v.k \in {"undefined", "null"}

\* v[name] for a value whose properties can be read.
Get(v, name) ==
  IF v.k = "object"
    THEN IF name \in DOMAIN v.f THEN v.f[name] ELSE Undef
    ELSE IF name = "length" /\ v.k = "string" THEN Num(Len(v.s))
    ELSE IF name = "length" /\ v.k = "array" THEN Num(Len(v.a))
    ELSE Undef

\* v.forEach exists on arrays only; calling it on anything else throws.
HasForEach(v) == v.k = "array"

\* x > n, x < n and x === n for a number n: false when x is undefined.
Gt(x, n) == x.k = "number" /\ x.n > n

Lt(x, n) == x.k = "number" /\ x.n < n

StrictEqNum(x, n) == x.k = "number" /\ x.n = n

DigitChar == <<"0", "1", "2", "3", "4", "5", "6", "7", "8", "9">>

RECURSIVE Decimal(_)
Decimal(n) ==
  IF n < 10 THEN <<DigitChar[n + 1]>>
  ELSE Decimal(n \div 10) \o <<DigitChar[(n % 10) + 1]>>

RECURSIVE JsString(_)
RECURSIVE JoinComma(_)
\* Array.prototype.join(','): null and undefined elements give the empty string.
JoinComma(a) ==
  IF a = <<>> THEN <<>>
  ELSE LET h == IF ReadThrows(a[1]) THEN <<>> ELSE JsString(a[1])
       IN IF Len(a) = 1 THEN h ELSE h \o <<",">> \o JoinComma(Tail(a))

\* String(v), the conversion RegExp.prototype.test applies to its argument.
JsString(v) ==
  CASE v.k = "string" -> v.s
    [] v.k = "number" -> Decimal(v.n)
    [] v.k = "array" -> JoinComma(v.a)
    [] v.k = "object" -> <<"[", "o", "b", "j", "e", "c", "t", " ", "O", "b", "j", "e", "c", "t", "]">>
    [] v.k = "null" -> <<"n", "u", "l", "l">>
    [] OTHER -> <<"u", "n", "d", "e", "f", "i", "n", "e", "d">>

(***************************************************************************)
(* Regular expressions of the validator                                    *)
(***************************************************************************)
Digits == {"0", "1", "2", "3", "4", "5", "6", "7", "8", "9"}

Letters ==
  {"a", "b", "c", "d", "e", "f", "g", "h", "i", "j", "k", "l", "m", "n", "o", "p", "q", "r", "s", "t", "u", "v", "w", "x", "y", "z"} \cup
  {"A", "B", "C", "D", "E", "F", "G", "H", "I", "J", "K", "L", "M", "N", "O", "P", "Q", "R", "S", "T", "U", "V", "W", "X", "Y", "Z"}

\* [a-zA-Z0-9._-]
IdChars == Letters \cup Digits \cup {".", "_", "-"}

AllIn(s, C) == \A i \in 1..Len(s) : s[i] \in C

\* ^[C]+$
OneOrMore(s, C) == s # <<>> /\ AllIn(s, C)

RECURSIVE SplitOn(_, _)
\* The maximal pieces of s between occurrences of the character c.
SplitOn(s, c) ==
  IF \E i \in 1..Len(s) : s[i] = c
    THEN LET i == CHOOSE j \in 1..Len(s) : s[j] = c /\ \A h \in 1..(j - 1) : s[h] # c
         IN <<SubSeq(s, 1, i - 1)>> \o SplitOn(SubSeq(s, i + 1, Len(s)), c)
    ELSE <<s>>

\* /^[a-zA-Z0-9._-]+:[a-zA-Z0-9._-]+:[a-zA-Z0-9._-]+:v\d+$/
\* No class of the pattern contains ':', so a match has exactly four pieces.
OrdIdPattern(s) ==
  LET p == SplitOn(s, ":")
  IN /\ Len(p) = 4
     /\ OneOrMore(p[1], IdChars)
     /\ OneOrMore(p[2], IdChars)
     /\ OneOrMore(p[3], IdChars)
     /\ Len(p[4]) >= 2
     /\ p[4][1] = "v"
     /\ AllIn(Tail(p[4]), Digits)

\* /^[a-zA-Z0-9._:-]+$/
VendorPattern(s) == OneOrMore(s, IdChars \cup {":"})

\* A variant of VersionPattern for /^\d+\.\d+$/; C5 does not hold of it.
VersionPatternMajorMinor(s) ==
  LET p == SplitOn(s, ".")
  IN Len(p) = 2 /\ \A i \in 1..2 : OneOrMore(p[i], Digits)

\* /^\d+\.\d+\.\d+$/
VersionPattern(s) ==
  LET p == SplitOn(s, ".")
  IN Len(p) = 3 /\ \A i \in 1..3 : OneOrMore(p[i], Digits)

\* A variant of PatternTest that accepts every value; C6 does not hold of
\* it.
PatternTestAccepts(pattern, value) == TRUE

\* pattern.test(value)
PatternTest(pattern, value) ==
  CASE pattern = "ordId" -> OrdIdPattern(JsString(value))
    [] pattern = "vendor" -> VendorPattern(JsString(value))
    [] pattern = "version" -> VersionPattern(JsString(value))
    [] OTHER -> TRUE

(***************************************************************************)
(* The rule table built by setupValidationRules                            *)
(***************************************************************************)
\* maxLength of title and shortDescription
MaxLength == 255

\* minLength of title and shortDescription
MinLength == 1

ApiProtocols ==
  {<<"o", "d", "a", "t", "a", "-", "v", "2">>,
   <<"o", "d", "a", "t", "a", "-", "v", "4">>,
   <<"r", "e", "s", "t">>,
   <<"g", "r", "a", "p", "h", "q", "l">>,
   <<"s", "o", "a", "p">>,
   <<"r", "p", "c">>}

EventResourceTypes ==
  {<<"B", "u", "s", "i", "n", "e", "s", "s", "E", "v", "e", "n", "t">>,
   <<"T", "e", "c", "h", "n", "i", "c", "a", "l", "E", "v", "e", "n", "t">>}

NoRule == [defined |-> FALSE, pattern |-> "", maxLength |-> 0, minLength |-> 0,
           hasEnum |-> FALSE, enum |-> {}, enumText |-> "", description |-> ""]

\* The entry setupValidationRules sets for a field.
setupValidationRules(field) ==
  CASE field = "ordId" ->
         [NoRule EXCEPT !.defined = TRUE, !.pattern = "ordId",
            !.description = "ORD ID must follow format: namespace:type:name:version"]
    [] field = "title" ->
         [NoRule EXCEPT !.defined = TRUE, !.maxLength = MaxLength, !.minLength = MinLength,
            !.description = "Title is required and must be between 1-255 characters"]
    [] field = "shortDescription" ->
         [NoRule EXCEPT !.defined = TRUE, !.maxLength = MaxLength, !.minLength = MinLength,
            !.description =
              "Short description is required and must be between 1-255 characters"]
    [] field = "vendor" ->
         [NoRule EXCEPT !.defined = TRUE, !.pattern = "vendor",
            !.description = "Vendor must be a valid ORD ID reference"]
    [] field = "apiProtocol" ->
         [NoRule EXCEPT !.defined = TRUE, !.hasEnum = TRUE, !.enum = ApiProtocols,
            !.enumText = "odata-v2, odata-v4, rest, graphql, soap, rpc",
            !.description = "API protocol must be one of the supported values"]
    [] field = "eventResourceType" ->
         [NoRule EXCEPT !.defined = TRUE, !.hasEnum = TRUE, !.enum = EventResourceTypes,
            !.enumText = "BusinessEvent, TechnicalEvent",
            !.description = "Event resource type must be BusinessEvent or TechnicalEvent"]
    [] OTHER -> NoRule

RuleFields ==
  {"ordId", "title", "shortDescription", "vendor", "apiProtocol", "eventResourceType"}

\* The Map the constructor builds.
NewRules == [field \in RuleFields |-> setupValidationRules(field)]

\* this.validationRules.get(field); a field without a rule gives NoRule.
validationRules(field) == IF field \in DOMAIN rules THEN rules[field] ELSE NoRule

(***************************************************************************)
(* Findings                                                                *)
(***************************************************************************)
\* A context string `${coll}[${idx}]` or `${coll}[${idx}].${sub}[${subidx}]`,
\* kept as its parts; findings of validateStructure and
\* validateCrossReferences carry no context.
NoContext == [coll |-> "", idx |-> -1, sub |-> "", subidx |-> -1]

Context(coll, index) == [coll |-> coll, idx |-> index, sub |-> "", subidx |-> -1]

SubContext(context, sub, index) == [context EXCEPT !.sub = sub, !.subidx = index]

\* A structured message. `message` is the template text of the code with
\* {0}, {1} where it interpolates document values, `margs` those values.
Finding(type, context, property, message, margs, value, severity) ==
  [type |-> type, context |-> context, property |-> property,
   message |-> message, margs |-> margs, value |-> value, severity |-> severity]

FieldError(context, property, message, value) ==
  Finding("field_validation", context, property, message, <<>>, value, "error")

FieldWarning(context, property, message, margs) ==
  Finding("field_validation", context, property, message, margs, Undef, "warning")

Enhancement(context, message) ==
  Finding("enhancement", context, "", message, <<>>, Undef, "info")

(***************************************************************************)
(* What a run of statements does to the result object: the entries it      *)
(* pushes, in order, and whether it ended by throwing.                     *)
(***************************************************************************)
Nothing ==
  [errors |-> <<>>, warnings |-> <<>>, suggestions |-> <<>>, threw |-> FALSE, fault |-> ""]

\* result.errors.push(e)
PushError(e) == [Nothing EXCEPT !.errors = <<e>>]

\* result.warnings.push(w)
PushWarning(w) == [Nothing EXCEPT !.warnings = <<w>>]

\* A variant of PushSuggestion that files the suggestion with the
\* warnings; C11 does not hold of it.
PushSuggestionAsWarning(s) == [Nothing EXCEPT !.warnings = <<s>>]

\* result.suggestions.push(s)
PushSuggestion(s) == [Nothing EXCEPT !.suggestions = <<s>>]

\* A TypeError raised by the JavaScript runtime.
Throw(message) == [Nothing EXCEPT !.threw = TRUE, !.fault = message]

NullRead == "Cannot read properties of null or undefined"

NoForEach == "forEach is not a function"

RECURSIVE Pushed(_, _, _, _)
\* The entries of list `field` pushed by runs[i..k].
Pushed(runs, field, i, k) ==
  IF i > k THEN <<>> ELSE runs[i][field] \o Pushed(runs, field, i + 1, k)

\* Statements run one after the other: those after the first that throws
\* do not run.
InOrder(runs) ==
  LET thrower == {i \in 1..Len(runs) : runs[i].threw}
      k == IF thrower = {} THEN Len(runs)
           ELSE CHOOSE i \in thrower : \A j \in thrower : i <= j
  IN [errors |-> Pushed(runs, "errors", 1, k),
      warnings |-> Pushed(runs, "warnings", 1, k),
      suggestions |-> Pushed(runs, "suggestions", 1, k),
      threw |-> thrower # {},
      fault |-> IF thrower = {} THEN "" ELSE runs[k].fault]

(***************************************************************************)
(* Field helpers                                                           *)
(***************************************************************************)
\* A variant of validateRequiredField that goes on to report the format of
\* the value that is missing; C21 does not hold of it.
validateRequiredFieldAndFormat(obj, field, context) ==
  IF ReadThrows(obj) THEN Throw(NullRead)
  ELSE IF ~Truthy(Get(obj, field))
    THEN InOrder(<<
           PushError(FieldError(context, field, "Missing required field: " \o field, Undef)),
           PushError(FieldError(context, field, "Invalid format for " \o field,
                                Get(obj, field))) >>)
    ELSE Nothing

validateRequiredField(obj, field, context) ==
  IF ReadThrows(obj) THEN Throw(NullRead)
  ELSE IF ~Truthy(Get(obj, field))
    THEN PushError(FieldError(context, field, "Missing required field: " \o field, Undef))
    ELSE Nothing

\* list.includes(value)
Includes(list, value) == value.k = "string" /\ value.s \in list

validateField(obj, field, context) ==
  IF ReadThrows(obj) THEN Throw(NullRead)
  ELSE
    LET value == Get(obj, field)
        rule == validationRules(field)
    IN IF ~rule.defined \/ ~Truthy(value) THEN Nothing
       ELSE InOrder(<<
         IF rule.pattern # "" /\ ~PatternTest(rule.pattern, value)
           THEN PushError(FieldError(context, field,
                  "Invalid format for " \o field \o ": " \o rule.description, value))
           ELSE Nothing,
         IF rule.maxLength # 0 /\ Gt(Get(value, "length"), rule.maxLength)
           THEN PushError(FieldError(context, field,
                  field \o " exceeds maximum length of " \o ToString(rule.maxLength)
                    \o " characters", value))
           ELSE Nothing,
         IF rule.minLength # 0 /\ Lt(Get(value, "length"), rule.minLength)
           THEN PushError(FieldError(context, field,
                  field \o " is below minimum length of " \o ToString(rule.minLength)
                    \o " characters", value))
           ELSE Nothing,
         IF rule.hasEnum /\ ~Includes(rule.enum, value)
           THEN PushError(FieldError(context, field,
                  "Invalid value for " \o field \o ". Expected one of: " \o rule.enumText,
                  value))
           ELSE Nothing >>)

\* A variant of validateEntryPoint that does not look at url; the amended
\* C24 does not hold of it.
validateEntryPointTypeOnly(entryPoint, context) ==
  IF ReadThrows(entryPoint) THEN Throw(NullRead)
  ELSE IF ~Truthy(Get(entryPoint, "type"))
    THEN PushError(FieldError(context, "type", "Entry point must have a type", Undef))
    ELSE Nothing

validateEntryPoint(entryPoint, context) ==
  IF ReadThrows(entryPoint) THEN Throw(NullRead)
  ELSE InOrder(<<
    IF ~Truthy(Get(entryPoint, "type"))
      THEN PushError(FieldError(context, "type", "Entry point must have a type", Undef))
      ELSE Nothing,
    IF ~Truthy(Get(entryPoint, "url"))
      THEN PushError(FieldError(context, "url", "Entry point must have a URL", Undef))
      ELSE Nothing >>)

ValidApiTypes ==
  {<<"o", "p", "e", "n", "a", "p", "i", "-", "v", "3">>,
   <<"e", "d", "m", "x">>,
   <<"c", "s", "d", "l", "-", "j", "s", "o", "n">>,
   <<"w", "s", "d", "l", "-", "v", "1">>,
   <<"r", "f", "c", "m", "e", "t", "a", "d", "a", "t", "a", "-", "v", "1">>}

ValidEventTypes ==
  {<<"a", "s", "y", "n", "c", "a", "p", "i", "-", "v", "2">>,
   <<"a", "s", "y", "n", "c", "a", "p", "i", "-", "v", "3">>}

validateResourceDefinition(definition, context, resourceType) ==
  IF ReadThrows(definition) THEN Throw(NullRead)
  ELSE
    LET type == Get(definition, "type")
    IN InOrder(<<
      IF ~Truthy(type)
        THEN PushError(FieldError(context, "type",
               "Resource definition must have a type", Undef))
        ELSE Nothing,
      IF ~Truthy(Get(definition, "mediaType"))
        THEN PushError(FieldError(context, "mediaType",
               "Resource definition must have a media type", Undef))
        ELSE Nothing,
      IF ~Truthy(Get(definition, "url")) /\ ~Truthy(Get(definition, "content"))
        THEN PushError(FieldError(context, "url",
               "Resource definition must have either URL or inline content", Undef))
        ELSE Nothing,
      IF resourceType = "api" /\ Truthy(type) /\ ~Includes(ValidApiTypes, type)
        THEN PushWarning(FieldWarning(context, "type",
               "Non-standard API resource definition type: {0}", <<type>>))
        ELSE Nothing,
      IF resourceType = "event" /\ Truthy(type) /\ ~Includes(ValidEventTypes, type)
        THEN PushWarning(FieldWarning(context, "type",
               "Non-standard event resource definition type: {0}", <<type>>))
        ELSE Nothing >>)

ValidStrategyTypes ==
  {<<"o", "a", "u", "t", "h", "2">>,
   <<"b", "a", "s", "i", "c">>,
   <<"c", "u", "s", "t", "o", "m">>}

\* A variant of validateCredentialStrategy that does not look at
\* callbackUrl; C25 does not hold of it.
validateCredentialStrategyTypeOnly(strategy, context) ==
  IF ReadThrows(strategy) THEN Throw(NullRead)
  ELSE
    LET type == Get(strategy, "type")
    IN InOrder(<<
      IF ~Truthy(type)
        THEN PushError(FieldError(context, "type",
               "Credential exchange strategy must have a type", Undef))
        ELSE Nothing,
      IF Truthy(type) /\ ~Includes(ValidStrategyTypes, type)
        THEN PushWarning(FieldWarning(context, "type",
               "Non-standard credential exchange strategy: {0}", <<type>>))
        ELSE Nothing >>)

validateCredentialStrategy(strategy, context) ==
  IF ReadThrows(strategy) THEN Throw(NullRead)
  ELSE
    LET type == Get(strategy, "type")
    IN InOrder(<<
      IF ~Truthy(type)
        THEN PushError(FieldError(context, "type",
               "Credential exchange strategy must have a type", Undef))
        ELSE Nothing,
      IF Truthy(type) /\ ~Includes(ValidStrategyTypes, type)
        THEN PushWarning(FieldWarning(context, "type",
               "Non-standard credential exchange strategy: {0}", <<type>>))
        ELSE Nothing,
      IF type = Str(<<"o", "a", "u", "t", "h", "2">>) /\ ~Truthy(Get(strategy, "callbackUrl"))
        THEN PushError(FieldError(context, "callbackUrl",
               "OAuth2 strategy requires a callback URL", Undef))
        ELSE Nothing >>)

RECURSIVE EntriesOf(_, _)
EntriesOf(f, names) ==
  IF names = {} THEN <<>>
  ELSE LET n == CHOOSE x \in names : TRUE
       IN <<[key |-> n, value |-> f[n]]>> \o EntriesOf(f, names \ {n})

\* Object.entries(v): the own enumerable properties with their values.
\* The property order of an object is not represented (its fields are a
\* function); the entries come in a fixed order.
Entries(v) ==
  CASE v.k = "object" -> EntriesOf(v.f, DOMAIN v.f)
    [] v.k = "array" -> [i \in 1..Len(v.a) |-> [key |-> ToString(i - 1), value |-> v.a[i]]]
    [] OTHER -> <<>>

validateLabels(labels, context) ==
  IF TypeOf(labels) # "object" \/ labels.k = "null"
    THEN PushError(FieldError(context, "labels", "Labels must be an object", Undef))
    ELSE LET entries == Entries(labels)
         IN InOrder([i \in 1..Len(entries) |->
              IF entries[i].value.k # "array"
                THEN PushError(FieldError(context, "labels." \o entries[i].key,
                       "Label values must be arrays", Undef))
                ELSE Nothing])

\* A variant of forEach that visits the items from the last to the first;
\* C26 does not hold of it.
forEachBackwards(list, runs) ==
  IF ~HasForEach(list) THEN Throw(NoForEach)
  ELSE InOrder([i \in 1..Len(runs) |-> runs[Len(runs) + 1 - i]])

\* list.forEach((item, i) => callback(item, i)) applied to any value: only
\* arrays have forEach. `runs` gives the run of the callback on each item.
forEach(list, runs) == IF ~HasForEach(list) THEN Throw(NoForEach) ELSE InOrder(runs)

\* The items of a value that is iterated, none when it is not an array.
Items(list) == IF HasForEach(list) THEN list.a ELSE <<>>

(***************************************************************************)
(* Per-record validators                                                   *)
(***************************************************************************)
validateProduct(product, index, strictFlag) ==
  LET context == Context("products", index)
      labels == Get(product, "labels")
  IN InOrder(<<
       validateRequiredField(product, "ordId", context),
       validateRequiredField(product, "title", context),
       validateRequiredField(product, "shortDescription", context),
       validateRequiredField(product, "vendor", context),
       validateField(product, "ordId", context),
       validateField(product, "title", context),
       validateField(product, "shortDescription", context),
       IF ~Truthy(Get(product, "description")) /\ strictFlag
         THEN PushSuggestion(Enhancement(context,
                "Consider adding a detailed description for better documentation"))
         ELSE Nothing,
       IF Truthy(labels) THEN validateLabels(labels, context) ELSE Nothing >>)

ValidCapabilityTypes ==
  {<<"s", "a", "p", ".", "m", "d", "o", ":", "c", "a", "p", "a", "b", "i", "l", "i", "t", "y", "-", "t", "y", "p", "e", ":", "b", "u", "s", "i", "n", "e", "s", "s", "-", "c", "a", "p", "a", "b", "i", "l", "i", "t", "y", ":", "v", "1">>,
   <<"s", "a", "p", ".", "m", "d", "o", ":", "c", "a", "p", "a", "b", "i", "l", "i", "t", "y", "-", "t", "y", "p", "e", ":", "t", "e", "c", "h", "n", "i", "c", "a", "l", "-", "c", "a", "p", "a", "b", "i", "l", "i", "t", "y", ":", "v", "1">>}

validateCapability(capability, index, strictFlag) ==
  LET context == Context("capabilities", index)
      type == Get(capability, "type")
  IN InOrder(<<
       validateRequiredField(capability, "ordId", context),
       validateRequiredField(capability, "title", context),
       validateRequiredField(capability, "shortDescription", context),
       validateRequiredField(capability, "type", context),
       validateField(capability, "ordId", context),
       validateField(capability, "title", context),
       validateField(capability, "shortDescription", context),
       IF /\ Truthy(type)
          /\ ~Includes(ValidCapabilityTypes, type)
          /\ ~Truthy(Get(capability, "customType"))
         THEN PushWarning(FieldWarning(context, "type",
                "Non-standard capability type. Consider using standard types or define customType",
                <<>>))
         ELSE Nothing >>)

\* if (x.resourceDefinitions) { forEach ... } else if (strict) { suggestion }
validateResourceDefinitions(definitions, context, resourceType, strictFlag, advice) ==
  IF Truthy(definitions)
    THEN forEach(definitions,
           [i \in 1..Len(Items(definitions)) |->
              validateResourceDefinition(Items(definitions)[i],
                SubContext(context, "resourceDefinitions", i - 1), resourceType)])
  ELSE IF strictFlag THEN PushSuggestion(Enhancement(context, advice))
  ELSE Nothing

validateApiResource(api, index, strictFlag) ==
  LET context == Context("apiResources", index)
      entryPoints == Get(api, "entryPoints")
  IN InOrder(<<
       validateRequiredField(api, "ordId", context),
       validateRequiredField(api, "title", context),
       validateRequiredField(api, "shortDescription", context),
       validateRequiredField(api, "apiProtocol", context),
       validateField(api, "ordId", context),
       validateField(api, "title", context),
       validateField(api, "shortDescription", context),
       validateField(api, "apiProtocol", context),
       IF ~Truthy(entryPoints) \/ StrictEqNum(Get(entryPoints, "length"), 0)
         THEN PushError(FieldError(context, "entryPoints",
                "API resource must have at least one entry point", Undef))
         ELSE forEach(entryPoints,
                [i \in 1..Len(Items(entryPoints)) |->
                   validateEntryPoint(Items(entryPoints)[i],
                                      SubContext(context, "entryPoints", i - 1))]),
       validateResourceDefinitions(Get(api, "resourceDefinitions"), context, "api",
         strictFlag,
         "Consider adding resource definitions (OpenAPI, EDMX, etc.) for better API documentation")
     >>)

validateEventResource(event, index, strictFlag) ==
  LET context == Context("eventResources", index)
  IN InOrder(<<
       validateRequiredField(event, "ordId", context),
       validateRequiredField(event, "title", context),
       validateRequiredField(event, "shortDescription", context),
       validateRequiredField(event, "eventResourceType", context),
       validateField(event, "ordId", context),
       validateField(event, "title", context),
       validateField(event, "shortDescription", context),
       validateField(event, "eventResourceType", context),
       validateResourceDefinitions(Get(event, "resourceDefinitions"), context, "event",
         strictFlag,
         "Consider adding AsyncAPI specification for better event documentation") >>)

\* (x && x.length > 0)
NonEmptyList(x) == Truthy(x) /\ Gt(Get(x, "length"), 0)

validateConsumptionBundle(bundle, index, strictFlag) ==
  LET context == Context("consumptionBundles", index)
      strategies == Get(bundle, "credentialExchangeStrategies")
      hasResources == \/ NonEmptyList(Get(bundle, "apiResources"))
                      \/ NonEmptyList(Get(bundle, "eventResources"))
  IN InOrder(<<
       validateRequiredField(bundle, "ordId", context),
       validateRequiredField(bundle, "title", context),
       validateRequiredField(bundle, "shortDescription", context),
       validateRequiredField(bundle, "credentialExchangeStrategies", context),
       validateField(bundle, "ordId", context),
       validateField(bundle, "title", context),
       validateField(bundle, "shortDescription", context),
       IF ~Truthy(strategies) THEN Nothing
       ELSE IF strategies.k # "array" \/ StrictEqNum(Get(strategies, "length"), 0)
         THEN PushError(FieldError(context, "credentialExchangeStrategies",
                "Must have at least one credential exchange strategy", Undef))
         ELSE forEach(strategies,
                [i \in 1..Len(Items(strategies)) |->
                   validateCredentialStrategy(Items(strategies)[i],
                     SubContext(context, "credentialExchangeStrategies", i - 1))]),
       IF ~hasResources
         THEN PushWarning(Finding("field_validation", context, "",
                "Consumption bundle should reference at least one API or event resource",
                <<>>, Undef, "warning"))
         ELSE Nothing >>)

validateVendor(vendor, index, strictFlag) ==
  LET context == Context("vendors", index)
  IN InOrder(<<
       validateRequiredField(vendor, "ordId", context),
       validateRequiredField(vendor, "title", context),
       validateField(vendor, "ordId", context),
       validateField(vendor, "title", context) >>)

\* The callback validateMetadata passes to forEach for a collection.
validateRecord(collection, record, index, strictFlag) ==
  CASE collection = "products" -> validateProduct(record, index, strictFlag)
    [] collection = "capabilities" -> validateCapability(record, index, strictFlag)
    [] collection = "apiResources" -> validateApiResource(record, index, strictFlag)
    [] collection = "eventResources" -> validateEventResource(record, index, strictFlag)
    [] collection = "consumptionBundles" -> validateConsumptionBundle(record, index, strictFlag)
    [] OTHER -> validateVendor(record, index, strictFlag)

\* if (metadata.<collection>) { metadata.<collection>.forEach(validate...) }
validateCollection(doc, collection, strictFlag) ==
  IF ReadThrows(doc) THEN Throw(NullRead)
  ELSE LET c == Get(doc, collection)
       IN IF ~Truthy(c) THEN Nothing
          ELSE forEach(c, [i \in 1..Len(Items(c)) |->
                             validateRecord(collection, Items(c)[i], i - 1, strictFlag)])

(***************************************************************************)
(* validateStructure                                                       *)
(***************************************************************************)
StructureError(property, message) ==
  Finding("structure", NoContext, property, message, <<>>, Undef, "error")

\* A variant of ResourceTypes with all six collections; the amended C19
\* does not hold of it.
AllResourceTypes ==
  <<"products", "capabilities", "apiResources", "eventResources", "vendors",
    "consumptionBundles">>

\* const resourceTypes = [...]
ResourceTypes == <<"products", "capabilities", "apiResources", "eventResources">>

\* The checks of validateStructure on an object: the required top-level
\* properties, the version format, the presence of resources.
structureChecks(doc) ==
  LET version == Get(doc, "openResourceDiscoveryVersion")
      hasResources == \E i \in 1..Len(ResourceTypes) :
                         NonEmptyList(Get(doc, ResourceTypes[i]))
  IN InOrder(<<
       IF ~Truthy(version)
         THEN PushError(StructureError("openResourceDiscoveryVersion",
                "Missing required property: openResourceDiscoveryVersion"))
         ELSE Nothing,
       IF Truthy(version) /\ ~PatternTest("version", version)
         THEN PushError(StructureError("openResourceDiscoveryVersion",
                "Invalid version format. Expected semantic version (e.g., 1.9.0)"))
         ELSE Nothing,
       IF ~hasResources
         THEN PushWarning(Finding("structure", NoContext, "",
                "No resources defined. Consider adding products, capabilities, APIs, or events",
                <<>>, Undef, "warning"))
         ELSE Nothing >>)

\* A variant of validateStructure without the guard on the type of the
\* document; C10 does not hold of it.
validateStructureUnguarded(doc) ==
  IF ReadThrows(doc) THEN Throw(NullRead) ELSE structureChecks(doc)

validateStructure(doc) ==
  IF TypeOf(doc) # "object" \/ doc.k = "null"
    THEN PushError(StructureError("", "Metadata must be a valid JSON object"))
    ELSE structureChecks(doc)

(***************************************************************************)
(* validateCrossReferences                                                 *)
(***************************************************************************)
\* A JavaScript Set: primitives are members by value, objects by identity
\* (two values of a document that are objects are never the same object).
SetHas(S, v) == v.k \in {"string", "number"} /\ v \in S

Range(s) == {s[i] : i \in 1..Len(s)}

RECURSIVE AddAll(_, _, _)
\* set.add(v) for each v of `values` in order: a Set keeps one occurrence
\* of a value, at the place of its first insertion.
AddAll(values, i, set) ==
  IF i > Len(values) THEN set
  ELSE AddAll(values, i + 1,
              IF SetHas(Range(set), values[i]) THEN set ELSE Append(set, values[i]))

RECURSIVE TruthyOrdIds(_, _)
TruthyOrdIds(records, i) ==
  IF i > Len(records) THEN <<>>
  ELSE (IF ~ReadThrows(records[i]) /\ Truthy(Get(records[i], "ordId"))
          THEN <<Get(records[i], "ordId")>> ELSE <<>>)
       \o TruthyOrdIds(records, i + 1)

\* The ordId values the loop over a collection adds to its Set and to
\* allOrdIds, in the order of the records: if (record.ordId) { ...add }
CollectedIds(doc, collection) ==
  IF ReadThrows(doc) THEN <<>> ELSE TruthyOrdIds(Items(Get(doc, collection)), 1)

\* vendorIds, apiIds, eventIds once their loop has run (productIds,
\* capabilityIds and bundleIds are built the same way and never read).
IdSet(doc, collection) == Range(AddAll(CollectedIds(doc, collection), 1, <<>>))

\* allOrdIds once the six loops have run, in the order of the code:
\* vendors, products, capabilities, apiResources, eventResources, bundles.
AllOrdIds(doc) ==
  AddAll(CollectedIds(doc, "vendors") \o CollectedIds(doc, "products")
           \o CollectedIds(doc, "capabilities") \o CollectedIds(doc, "apiResources")
           \o CollectedIds(doc, "eventResources")
           \o CollectedIds(doc, "consumptionBundles"),
         1, <<>>)

CrossReferenceFinding(message, margs, severity) ==
  Finding("cross_reference", NoContext, "", message, margs, Undef, severity)

\* ordId || 'unknown'
OrUnknown(id) == IF Truthy(id) THEN id ELSE Str(<<"u", "n", "k", "n", "o", "w", "n">>)

\* A variant of checkVendorReference that reports the unknown vendor as an
\* error; C4 does not hold of it.
checkVendorReferenceAsError(doc, product) ==
  LET vendor == Get(product, "vendor")
  IN IF Truthy(vendor) /\ ~SetHas(IdSet(doc, "vendors"), vendor)
       THEN PushError(CrossReferenceFinding("Product {0} references unknown vendor: {1}",
              <<OrUnknown(Get(product, "ordId")), vendor>>, "error"))
       ELSE Nothing

\* if (product.vendor && !vendorIds.has(product.vendor)) { warning }
checkVendorReference(doc, product) ==
  LET vendor == Get(product, "vendor")
  IN IF Truthy(vendor) /\ ~SetHas(IdSet(doc, "vendors"), vendor)
       THEN PushWarning(CrossReferenceFinding("Product {0} references unknown vendor: {1}",
              <<OrUnknown(Get(product, "ordId")), vendor>>, "warning"))
       ELSE Nothing

\* A variant of checkReference that reports the unknown resource as a
\* warning, as the vendor check does; C3 does not hold of it.
checkReferenceAsWarning(doc, bundle, kind, ref) ==
  IF ref.k # "string" /\ ReadThrows(ref) THEN Throw(NullRead)
  ELSE
    LET refId == IF TypeOf(ref) = "string" THEN ref ELSE Get(ref, "ordId")
        known == IF kind = "api" THEN IdSet(doc, "apiResources")
                 ELSE IdSet(doc, "eventResources")
    IN IF Truthy(refId) /\ ~SetHas(known, refId)
         THEN PushWarning(CrossReferenceFinding(
                IF kind = "api"
                  THEN "Consumption bundle {0} references unknown API resource: {1}"
                  ELSE "Consumption bundle {0} references unknown event resource: {1}",
                <<OrUnknown(Get(bundle, "ordId")), refId>>, "warning"))
         ELSE Nothing

\* A variant of checkReference that looks the reference up in allOrdIds,
\* the ids of all collections; the amended C18 does not hold of it.
checkReferenceAnywhere(doc, bundle, kind, ref) ==
  IF ref.k # "string" /\ ReadThrows(ref) THEN Throw(NullRead)
  ELSE
    LET refId == IF TypeOf(ref) = "string" THEN ref ELSE Get(ref, "ordId")
    IN IF Truthy(refId) /\ ~SetHas(Range(AllOrdIds(doc)), refId)
         THEN PushError(CrossReferenceFinding(
                IF kind = "api"
                  THEN "Consumption bundle {0} references unknown API resource: {1}"
                  ELSE "Consumption bundle {0} references unknown event resource: {1}",
                <<OrUnknown(Get(bundle, "ordId")), refId>>, "error"))
         ELSE Nothing

\* The callback of bundle.apiResources.forEach / bundle.eventResources.forEach.
checkReference(doc, bundle, kind, ref) ==
  IF ref.k # "string" /\ ReadThrows(ref) THEN Throw(NullRead)
  ELSE
    LET refId == IF TypeOf(ref) = "string" THEN ref ELSE Get(ref, "ordId")
        known == IF kind = "api" THEN IdSet(doc, "apiResources")
                 ELSE IdSet(doc, "eventResources")
    IN IF Truthy(refId) /\ ~SetHas(known, refId)
         THEN PushError(CrossReferenceFinding(
                IF kind = "api"
                  THEN "Consumption bundle {0} references unknown API resource: {1}"
                  ELSE "Consumption bundle {0} references unknown event resource: {1}",
                <<OrUnknown(Get(bundle, "ordId")), refId>>, "error"))
         ELSE Nothing

\* if (bundle.apiResources) { bundle.apiResources.forEach(...) } and the
\* same for bundle.eventResources.
checkBundleReferences(doc, bundle, kind) ==
  LET refs == Get(bundle, IF kind = "api" THEN "apiResources" ELSE "eventResources")
  IN IF ~Truthy(refs) THEN Nothing
     ELSE forEach(refs, [i \in 1..Len(Items(refs)) |->
                           checkReference(doc, bundle, kind, Items(refs)[i])])

\* The callback of the forEach over one collection; reading record.ordId
\* comes first.
crossReferenceRecord(doc, collection, record) ==
  IF ReadThrows(record) THEN Throw(NullRead)
  ELSE CASE collection = "products" -> checkVendorReference(doc, record)
         [] collection = "consumptionBundles" ->
              InOrder(<<checkBundleReferences(doc, record, "api"),
                        checkBundleReferences(doc, record, "event")>>)
         [] OTHER -> Nothing

\* if (metadata.<collection>) { metadata.<collection>.forEach(...) }
crossReferenceCollection(doc, collection) ==
  IF ReadThrows(doc) THEN Throw(NullRead)
  ELSE LET c == Get(doc, collection)
       IN IF ~Truthy(c) THEN Nothing
          ELSE forEach(c, [i \in 1..Len(Items(c)) |->
                             crossReferenceRecord(doc, collection, Items(c)[i])])

RECURSIVE checkDuplicates(_, _, _)
\* allOrdIds.forEach(id => { if (seenIds.has(id)) { error } else { seenIds.add(id) } })
checkDuplicates(allOrdIds, i, seenIds) ==
  IF i > Len(allOrdIds) THEN <<>>
  ELSE IF SetHas(seenIds, allOrdIds[i])
    THEN <<CrossReferenceFinding("Duplicate ORD ID found: {0}", <<allOrdIds[i]>>, "error")>>
         \o checkDuplicates(allOrdIds, i + 1, seenIds)
    ELSE checkDuplicates(allOrdIds, i + 1, seenIds \cup {allOrdIds[i]})

validateCrossReferences(doc) ==
  InOrder(<<
    crossReferenceCollection(doc, "vendors"),
    crossReferenceCollection(doc, "products"),
    crossReferenceCollection(doc, "capabilities"),
    crossReferenceCollection(doc, "apiResources"),
    crossReferenceCollection(doc, "eventResources"),
    crossReferenceCollection(doc, "consumptionBundles"),
    [Nothing EXCEPT !.errors = checkDuplicates(AllOrdIds(doc), 1, {})] >>)

(***************************************************************************)
(* validateMetadata                                                        *)
(***************************************************************************)
\* const result = { valid: true, errors: [], warnings: [], suggestions: [], ... }
\* (the timestamp is not modelled).
FreshResult(strictFlag) ==
  [valid |-> TRUE, errors |-> <<>>, warnings |-> <<>>, suggestions |-> <<>>,
   validationLevel |-> IF strictFlag THEN "strict" ELSE "standard"]

\* The result object after the pushes of a run of statements.
Merge(res, run) ==
  [res EXCEPT !.errors = @ \o run.errors,
              !.warnings = @ \o run.warnings,
              !.suggestions = @ \o run.suggestions]

\* A variant of the catch clause that rethrows; C7 does not hold of it.
catchRethrow(res, fault) == [result |-> res, raised |-> TRUE]

\* A variant of the catch clause that returns a fresh result with the
\* terminal error only; C8 does not hold of it.
catchDiscard(res, fault) ==
  [result |-> [res EXCEPT !.valid = FALSE,
                          !.errors = <<Finding("validation_error", NoContext, "",
                                               "Validation failed: " \o fault, <<>>,
                                               Undef, "error")>>,
                          !.warnings = <<>>,
                          !.suggestions = <<>>],
   raised |-> FALSE]

\* catch (error) { result.valid = false; result.errors.push({...}) }
\* The exception is consumed: nothing is raised to the caller.
catchClause(res, fault) ==
  [result |-> [res EXCEPT
                 !.valid = FALSE,
                 !.errors = Append(@, Finding("validation_error", NoContext, "",
                                              "Validation failed: " \o fault,
                                              <<>>, Undef, "error"))],
   raised |-> FALSE]

\* A variant of setValid that also counts the warnings; C1 does not hold
\* of it.
setValidNoFindings(res) ==
  [res EXCEPT !.valid = (Len(res.errors) = 0 /\ Len(res.warnings) = 0)]

\* result.valid = result.errors.length === 0
setValid(res) == [res EXCEPT !.valid = (Len(res.errors) = 0)]

\* One call of validateMetadata from entry to return: the phases in the
\* order of the try block, then result.valid or the catch clause.
validateMetadata(doc, strictFlag) ==
  LET run == InOrder(<<validateStructure(doc),
                       validateCollection(doc, "products", strictFlag),
                       validateCollection(doc, "capabilities", strictFlag),
                       validateCollection(doc, "apiResources", strictFlag),
                       validateCollection(doc, "eventResources", strictFlag),
                       validateCollection(doc, "consumptionBundles", strictFlag),
                       validateCollection(doc, "vendors", strictFlag),
                       validateCrossReferences(doc)>>)
      res == Merge(FreshResult(strictFlag), run)
  IN IF run.threw THEN catchClause(res, run.fault).result ELSE setValid(res)

\* A group of statements of the try block: when it throws, the catch clause
\* runs and the method returns.
tryBlock(run, to) ==
  IF run.threw
    THEN /\ result' = catchClause(Merge(result, run), run.fault).result
         /\ raised' = catchClause(Merge(result, run), run.fault).raised
         /\ pc' = "done"
    ELSE /\ result' = Merge(result, run)
         /\ raised' = raised
         /\ pc' = to

Structure ==
  /\ pc = "structure"
  /\ tryBlock(validateStructure(metadata), "products")
  /\ UNCHANGED <<metadata, strict, validatorVars, toolVars, projectVars, httpVars, indexerVars>>

Products ==
  /\ pc = "products"
  /\ tryBlock(validateCollection(metadata, "products", strict), "capabilities")
  /\ UNCHANGED <<metadata, strict, validatorVars, toolVars, projectVars, httpVars, indexerVars>>

Capabilities ==
  /\ pc = "capabilities"
  /\ tryBlock(validateCollection(metadata, "capabilities", strict), "apiResources")
  /\ UNCHANGED <<metadata, strict, validatorVars, toolVars, projectVars, httpVars, indexerVars>>

ApiResources ==
  /\ pc = "apiResources"
  /\ tryBlock(validateCollection(metadata, "apiResources", strict), "eventResources")
  /\ UNCHANGED <<metadata, strict, validatorVars, toolVars, projectVars, httpVars, indexerVars>>

EventResources ==
  /\ pc = "eventResources"
  /\ tryBlock(validateCollection(metadata, "eventResources", strict), "consumptionBundles")
  /\ UNCHANGED <<metadata, strict, validatorVars, toolVars, projectVars, httpVars, indexerVars>>

ConsumptionBundles ==
  /\ pc = "consumptionBundles"
  /\ tryBlock(validateCollection(metadata, "consumptionBundles", strict), "vendors")
  /\ UNCHANGED <<metadata, strict, validatorVars, toolVars, projectVars, httpVars, indexerVars>>

Vendors ==
  /\ pc = "vendors"
  /\ tryBlock(validateCollection(metadata, "vendors", strict), "crossReferences")
  /\ UNCHANGED <<metadata, strict, validatorVars, toolVars, projectVars, httpVars, indexerVars>>

\* The cross-reference validation, then "Set overall validity" and the
\* return.
CrossReferences ==
  /\ pc = "crossReferences"
  /\ LET run == validateCrossReferences(metadata)
     IN IF run.threw
          THEN tryBlock(run, "done")
          ELSE /\ result' = setValid(Merge(result, run))
               /\ raised' = raised
               /\ pc' = "done"
  /\ UNCHANGED <<metadata, strict, validatorVars, toolVars, projectVars, httpVars, indexerVars>>

(***************************************************************************)
(* Concept catalog and tool handlers (src/src/ord-concepts.js,             *)
(* src/src/mcp-handlers.js, src/src/specification-fetcher.js and           *)
(* OrdMcpServer).  A text built by a template literal is the sequence of   *)
(* its pieces: Lit for the literal text of the code, the values it         *)
(* interpolates as they are.                                               *)
(***************************************************************************)
Lit(t) == [k |-> "lit", t |-> t]

\* What a function call ends with: a returned value or a thrown error.
Returned(v) == [o |-> "returned", value |-> v]

Thrown(e) == [o |-> "thrown", error |-> e]

\* new Error(message)
Error(message) == [name |-> "Error", message |-> message]

\* new McpError(code, message); the message as the caller gave it, the
\* prefix the SDK puts before it left out.
McpError(code, message) == [name |-> "McpError", code |-> code, message |-> message]

UpperLetters == <<"A", "B", "C", "D", "E", "F", "G", "H", "I", "J", "K", "L", "M", "N", "O", "P", "Q", "R", "S", "T", "U", "V", "W", "X", "Y", "Z">>

LowerLetters == <<"a", "b", "c", "d", "e", "f", "g", "h", "i", "j", "k", "l", "m", "n", "o", "p", "q", "r", "s", "t", "u", "v", "w", "x", "y", "z">>

LowerChar(c) ==
  IF \E i \in 1..26 : UpperLetters[i] = c
    THEN LowerLetters[CHOOSE i \in 1..26 : UpperLetters[i] = c]
    ELSE c

UpperChar(c) ==
  IF \E i \in 1..26 : LowerLetters[i] = c
    THEN UpperLetters[CHOOSE i \in 1..26 : LowerLetters[i] = c]
    ELSE c

\* A variant of toLowerCase that leaves the case as it is; C13 does not
\* hold of it.
keepCase(s) == s

\* String.prototype.toLowerCase
toLowerCase(s) == [i \in 1..Len(s) |-> LowerChar(s[i])]

\* A variant of WhiteSpace with no character in it; C15 does not hold of it.
NoWhiteSpace == {}

\* The white space trim removes (of it, what the inputs here contain).
WhiteSpace == {" ", "\t", "\n"}

\* A variant of trim that removes nothing; the amended C14 does not hold
\* of it.
trimNothing(s) == s

\* String.prototype.trim
trim(s) ==
  LET black == {i \in 1..Len(s) : s[i] \notin WhiteSpace}
  IN IF black = {} THEN <<>>
     ELSE SubSeq(s, CHOOSE i \in black : \A j \in black : i <= j,
                    CHOOSE i \in black : \A j \in black : j <= i)

\* One entry of ORD_CONCEPTS: its key, and of its value what
\* buildConceptExplanation reads.
Concept(key, properties) ==
  [key |-> key, description |-> TRUE, keyProperties |-> properties, example |-> TRUE]

\* The frozen object, its keys in the order of the source.
ORD_CONCEPTS ==
  <<Concept(<<"D", "o", "c", "u", "m", "e", "n", "t", "P", "r", "o", "p", "e", "r", "t", "i", "e", "s">>, 10),
    Concept(<<"P", "r", "o", "d", "u", "c", "t">>, 10),
    Concept(<<"P", "a", "c", "k", "a", "g", "e">>, 20),
    Concept(<<"C", "o", "n", "s", "u", "m", "p", "t", "i", "o", "n", "B", "u", "n", "d", "l", "e">>, 14),
    Concept(<<"A", "P", "I", "R", "e", "s", "o", "u", "r", "c", "e">>, 43),
    Concept(<<"E", "v", "e", "n", "t", "R", "e", "s", "o", "u", "r", "c", "e">>, 38),
    Concept(<<"E", "n", "t", "i", "t", "y", "T", "y", "p", "e">>, 25),
    Concept(<<"C", "a", "p", "a", "b", "i", "l", "i", "t", "y">>, 22),
    Concept(<<"D", "a", "t", "a", "P", "r", "o", "d", "u", "c", "t">>, 34),
    Concept(<<"V", "e", "n", "d", "o", "r">>, 9),
    Concept(<<"G", "r", "o", "u", "p">>, 8),
    Concept(<<"G", "r", "o", "u", "p", "T", "y", "p", "e">>, 7),
    Concept(<<"I", "n", "t", "e", "g", "r", "a", "t", "i", "o", "n", "D", "e", "p", "e", "n", "d", "e", "n", "c", "y">>, 19),
    Concept(<<"T", "o", "m", "b", "s", "t", "o", "n", "e">>, 4)>>

\* Object.keys(ORD_CONCEPTS)
conceptKeys == [i \in 1..Len(catalog) |-> catalog[i].key]

\* conceptKeys.join(", ")
availableConcepts == [k |-> "joined", with |-> ", ", items |-> conceptKeys]

validateConceptName(conceptName) ==
  IF ~Truthy(conceptName) \/ TypeOf(conceptName) # "string"
    THEN Thrown(Error(<<Lit("Concept name must be a non-empty string")>>))
  ELSE
    LET normalizedName == trim(conceptName.s)
        matching == {i \in 1..Len(conceptKeys) :
                       toLowerCase(conceptKeys[i]) = toLowerCase(normalizedName)}
    IN IF normalizedName = <<>>
         THEN Thrown(Error(<<Lit("Concept name cannot be empty or whitespace only")>>))
       ELSE IF matching = {}
         THEN Thrown(Error(<<Lit("Unknown concept: "), Str(normalizedName),
                             Lit(". Available concepts: "), availableConcepts>>))
       ELSE Returned(Str(conceptKeys[CHOOSE i \in matching : \A j \in matching : i <= j]))

\* The own properties of ORD_CONCEPTS of that name.
Lookup(conceptName) == {i \in 1..Len(catalog) : catalog[i].key = conceptName}

\* The names ORD_CONCEPTS, made by an object literal, inherits from
\* Object.prototype; each is a function, or for __proto__ the prototype.
ObjectPrototype ==
  {<<"c", "o", "n", "s", "t", "r", "u", "c", "t", "o", "r">>, <<"t", "o", "S", "t", "r", "i", "n", "g">>, <<"t", "o", "L", "o", "c", "a", "l", "e", "S", "t", "r", "i", "n", "g">>, <<"v", "a", "l", "u", "e", "O", "f">>,
   <<"h", "a", "s", "O", "w", "n", "P", "r", "o", "p", "e", "r", "t", "y">>, <<"i", "s", "P", "r", "o", "t", "o", "t", "y", "p", "e", "O", "f">>, <<"p", "r", "o", "p", "e", "r", "t", "y", "I", "s", "E", "n", "u", "m", "e", "r", "a", "b", "l", "e">>,
   <<"_", "_", "p", "r", "o", "t", "o", "_", "_">>, <<"_", "_", "d", "e", "f", "i", "n", "e", "G", "e", "t", "t", "e", "r", "_", "_">>, <<"_", "_", "d", "e", "f", "i", "n", "e", "S", "e", "t", "t", "e", "r", "_", "_">>,
   <<"_", "_", "l", "o", "o", "k", "u", "p", "G", "e", "t", "t", "e", "r", "_", "_">>, <<"_", "_", "l", "o", "o", "k", "u", "p", "S", "e", "t", "t", "e", "r", "_", "_">>}

\* An inherited value: truthy, without description, keyProperties, example.
Inherited(name) == [key |-> name, description |-> FALSE, keyProperties |-> 0, example |-> FALSE]

NotFound == [key |-> <<>>, description |-> FALSE, keyProperties |-> -1, example |-> FALSE]

\* ORD_CONCEPTS[conceptName]: the property of the name String(conceptName),
\* own or inherited; NotFound stands for undefined.
Property(conceptName) ==
  LET name == JsString(conceptName)
  IN IF Lookup(name) # {} THEN catalog[CHOOSE i \in Lookup(name) : TRUE]
     ELSE IF name \in ObjectPrototype THEN Inherited(name)
     ELSE NotFound

\* The pieces of a concept's value a text can hold: its description, one
\* of its key properties, its example as fenced JSON.
Part(kind, key, i) == [k |-> kind, of |-> key, i |-> i]

buildConceptExplanation(conceptName) ==
  LET concept == Property(conceptName)
  IN IF concept = NotFound
       THEN Thrown(Error(<<Lit("Concept "), Str(JsString(conceptName)), Lit(" not found")>>))
     ELSE
       Returned(
         <<Lit("# ORD Concept: "), Str(JsString(conceptName)), Lit("\n\n"),
           Lit("## Description\n"),
           IF concept.description THEN Part("description", concept.key, 0) ELSE Undef,
           Lit("\n\n")>>
         \o (IF concept.keyProperties > 0
               THEN <<Lit("## Key Properties\n")>>
                    \o [i \in 1..concept.keyProperties |->
                          Part("keyProperty", concept.key, i)]
                    \o <<Lit("\n")>>
               ELSE <<>>)
         \o (IF concept.example
               THEN <<Lit("## Example\n"), Part("example", concept.key, 0), Lit("\n\n")>>
               ELSE <<>>))

\* { content: [{ type: "text", text }] }
TextContent(text) == [content |-> <<[type |-> "text", text |-> text]>>]

handleExplainConcept(args) ==
  IF ~Truthy(args) \/ TypeOf(args) # "object"
    THEN Thrown(Error(<<Lit("Invalid arguments: expected object")>>))
  ELSE
    LET concept == validateConceptName(Get(args, "concept"))
    IN IF concept.o = "thrown" THEN concept
       ELSE LET explanation == buildConceptExplanation(concept.value)
            IN IF explanation.o = "thrown" THEN explanation
               ELSE Returned(TextContent(explanation.value))

REQUEST_TIMEOUT_MS == 10000

\* What axios.get comes back with: a response with data, a timeout, a
\* response of a status outside 2xx, or a failure of the network.
NoFetch == [kind |-> "none"]

Response(data) == [kind |-> "response", data |-> data]

Timeout == [kind |-> "ECONNABORTED"]

Status(status) == [kind |-> "status", status |-> status]

NetworkError == [kind |-> "network"]

fetchSpecification(outcome) ==
  CASE outcome.kind = "response" ->
         IF ~Truthy(outcome.data) \/ TypeOf(outcome.data) # "string"
           THEN Thrown(Error(<<Lit("Network error: "),
                               Lit("Invalid response: expected string content")>>))
           ELSE Returned(outcome.data)
    [] outcome.kind = "ECONNABORTED" ->
         Thrown(Error(<<Lit("Request timeout after "), Num(REQUEST_TIMEOUT_MS), Lit("ms")>>))
    [] outcome.kind = "status" ->
         Thrown(Error(<<Lit("HTTP "), Num(outcome.status),
                        Lit(": Failed to fetch specification")>>))
    [] OTHER -> Thrown(Error(<<Lit("Network error: "), Lit("network")>>))

handleGetSpecification(outcome) ==
  LET spec == fetchSpecification(outcome)
  IN IF spec.o = "thrown" THEN spec
     ELSE Returned(TextContent(<<Lit("# ORD Specification (Latest)\n\n"), spec.value>>))

\* A variant of toolError that does not set isError; C16 does not hold of it.
toolErrorUnflagged(error) ==
  [content |-> <<[type |-> "text", text |-> <<Lit("Error: ")>> \o error.message]>>]

\* The catch clause of _handleToolCall.
toolError(error) ==
  [content |-> <<[type |-> "text",
                  text |-> <<Lit("Error: ")>>
                           \o (IF error.name = "McpError" THEN <<>>
                               ELSE <<Lit("Tool execution failed: ")>>)
                           \o error.message]>>,
   isError |-> TRUE]

\* _handleToolCall of a request with params: the switch inside the try
\* block, then the catch clause if it threw.
handleToolCall(params, outcome) ==
  LET name == Get(params, "name")
      args == Get(params, "arguments")
      tried == CASE name = Str(<<"g", "e", "t", "_", "o", "r", "d", "_", "s", "p", "e", "c", "i", "f", "i", "c", "a", "t", "i", "o", "n">>) -> handleGetSpecification(outcome)
                 [] name = Str(<<"e", "x", "p", "l", "a", "i", "n", "_", "o", "r", "d", "_", "c", "o", "n", "c", "e", "p", "t">>) -> handleExplainConcept(args)
                 [] OTHER -> Thrown(McpError("MethodNotFound",
                                             <<Lit("Unknown tool: "), Str(JsString(name))>>))
  IN IF tried.o = "thrown" THEN Returned(toolError(tried.error)) ELSE tried

NoRequest == [entry |-> "none", argument |-> Undef]

NoResponse == [o |-> "none"]


(***************************************************************************)
(* The HTTP endpoint and the documentation indexer                         *)
(***************************************************************************)
\* The keys of this.cache.
CacheKeys == {"specification", "schemas", "examples", "capDocs"}

\* No request is being handled; the indexer is as its constructor leaves
\* it: an empty Map, lastUpdated null.
ServerConstructed ==
  /\ body = Undef
  /\ sent = <<>>
  /\ cache = <<>>
  /\ before = <<>>
  /\ lastUpdated = Null
  /\ op = "constructor"
  /\ requests = [key \in CacheKeys |-> <<>>]
(***************************************************************************)
(* The documents a caller passes                                           *)
(***************************************************************************)
\* Longest collection of the enumerated documents.
MaxRecords == 2

With(o, name, v) == Obj((name :> v) @@ o.f)

Without(o, name) == Obj([n \in DOMAIN o.f \ {name} |-> o.f[n]])

SeqsUpTo(S, n) == UNION {[1..m -> S] : m \in 0..n}

VendorA == Str(<<"n", ":", "v", ":", "a", ":", "v", "1">>)

VendorB == Str(<<"n", ":", "v", ":", "b", ":", "v", "1">>)

ProductA == Str(<<"n", ":", "p", ":", "a", ":", "v", "1">>)

ProductB == Str(<<"n", ":", "p", ":", "b", ":", "v", "1">>)

CapabilityA == Str(<<"n", ":", "c", ":", "a", ":", "v", "1">>)

ApiA == Str(<<"n", ":", "a", ":", "a", ":", "v", "1">>)

EventA == Str(<<"n", ":", "e", ":", "a", ":", "v", "1">>)

BundleA == Str(<<"n", ":", "b", ":", "a", ":", "v", "1">>)

UnknownId == Str(<<"n", ":", "x", ":", "u", ":", "v", "1">>)

InvalidId == Str(<<"n", "o", "t", "-", "a", "-", "v", "a", "l", "i", "d", "-", "i", "d">>)

Text == Str(<<"t">>)

LongText == Str([i \in 1..(MaxLength + 1) |-> "x"])

FullText == Str([i \in 1..MaxLength |-> "x"])

Url == Str(<<"/", "x">>)

GoodVendor(id) == Obj([ordId |-> id, title |-> Text])

GoodProduct(id, vendor) ==
  Obj([ordId |-> id, title |-> Text, shortDescription |-> Text, vendor |-> vendor])

GoodCapability ==
  Obj([ordId |-> CapabilityA, title |-> Text, shortDescription |-> Text,
       type |-> Str(<<"s", "a", "p", ".", "m", "d", "o", ":", "c", "a", "p", "a", "b", "i", "l", "i", "t", "y", "-", "t", "y", "p", "e", ":", "b", "u", "s", "i", "n", "e", "s", "s", "-", "c", "a", "p", "a", "b", "i", "l", "i", "t", "y", ":", "v", "1">>)])

GoodEntryPoint == Obj([type |-> Str(<<"r", "e", "s", "t">>), url |-> Url])

GoodDefinition(type) ==
  Obj([type |-> Str(type), mediaType |-> Str(<<"a", "p", "p", "l", "i", "c", "a", "t", "i", "o", "n", "/", "j", "s", "o", "n">>), url |-> Url])

GoodApi ==
  Obj([ordId |-> ApiA, title |-> Text, shortDescription |-> Text,
       apiProtocol |-> Str(<<"r", "e", "s", "t">>),
       entryPoints |-> Arr(<<GoodEntryPoint>>),
       resourceDefinitions |-> Arr(<<GoodDefinition(<<"o", "p", "e", "n", "a", "p", "i", "-", "v", "3">>)>>)])

GoodEvent ==
  Obj([ordId |-> EventA, title |-> Text, shortDescription |-> Text,
       eventResourceType |-> Str(<<"B", "u", "s", "i", "n", "e", "s", "s", "E", "v", "e", "n", "t">>),
       resourceDefinitions |-> Arr(<<GoodDefinition(<<"a", "s", "y", "n", "c", "a", "p", "i", "-", "v", "2">>)>>)])

BasicStrategy == Obj([type |-> Str(<<"b", "a", "s", "i", "c">>)])

\* A bundle that lists apiRefs as its apiResources and eventRefs as its
\* eventResources.
Bundle(apiRefs, eventRefs) ==
  Obj([ordId |-> BundleA, title |-> Text, shortDescription |-> Text,
       credentialExchangeStrategies |-> Arr(<<BasicStrategy>>),
       apiResources |-> Arr(apiRefs), eventResources |-> Arr(eventRefs)])

VendorPool ==
  {GoodVendor(VendorA), GoodVendor(VendorB), GoodVendor(InvalidId),
   Without(GoodVendor(VendorA), "title"), With(GoodVendor(VendorA), "title", LongText),
   Null, Num(5)}

ProductPool ==
  LET p == GoodProduct(ProductA, VendorA)
  IN {p, With(p, "ordId", InvalidId), Without(p, "ordId"), With(p, "title", Str(<<>>)),
      With(p, "shortDescription", LongText), Without(p, "vendor"),
      With(p, "vendor", Str(<<"b", "a", "d", " ", "v", "e", "n", "d", "o", "r", "!">>)),
      With(p, "description", Text), With(p, "labels", Text),
      With(p, "labels", Obj([env |-> Text])), With(p, "labels", Obj([env |-> Arr(<<Text>>)])),
      Null, Str(<<"a", "b", "c">>)}

CapabilityPool ==
  LET c == GoodCapability
  IN {c, With(c, "type", Str(<<"c", "u", "s", "t", "o", "m">>)),
      With(With(c, "type", Str(<<"c", "u", "s", "t", "o", "m">>)), "customType", Text),
      Without(c, "type"), Without(c, "shortDescription"), With(c, "ordId", InvalidId),
      With(c, "description", Text), Null}

ApiPool ==
  LET a == GoodApi
  IN {a, With(a, "apiProtocol", Str(<<"g", "r", "p", "c">>)), Without(a, "apiProtocol"),
      With(a, "ordId", InvalidId), With(a, "title", LongText),
      Without(a, "entryPoints"), With(a, "entryPoints", Arr(<<>>)),
      With(a, "entryPoints", Str(<<"/", "x">>)),
      With(a, "entryPoints", Arr(<<GoodEntryPoint, Obj([type |-> Str(<<"r", "e", "s", "t">>)])>>)),
      With(a, "entryPoints", Arr(<<Null>>)),
      Without(a, "resourceDefinitions"),
      With(a, "resourceDefinitions", Arr(<<GoodDefinition(<<"r", "a", "m", "l">>)>>)),
      With(a, "resourceDefinitions", Arr(<<Obj([type |-> Str(<<"e", "d", "m", "x">>)])>>)),
      With(a, "resourceDefinitions", Num(7)),
      Null}

EventPool ==
  LET e == GoodEvent
  IN {e, With(e, "eventResourceType", Str(<<"O", "t", "h", "e", "r">>)), Without(e, "eventResourceType"),
      With(e, "ordId", InvalidId), With(e, "shortDescription", LongText),
      Without(e, "resourceDefinitions"),
      With(e, "resourceDefinitions", Arr(<<GoodDefinition(<<"o", "p", "e", "n", "a", "p", "i", "-", "v", "3">>)>>)),
      With(e, "resourceDefinitions", Arr(<<Obj([mediaType |-> Text, content |-> Text])>>)),
      With(e, "resourceDefinitions", Str(<<"/", "x">>)),
      Null}

BundlePool ==
  LET b == Bundle(<<UnknownId>>, <<>>)
  IN {b, Bundle(<<>>, <<Obj([ordId |-> UnknownId])>>), Bundle(<<>>, <<>>),
      Without(Without(b, "apiResources"), "eventResources"),
      With(b, "ordId", InvalidId), With(b, "title", LongText),
      Without(b, "credentialExchangeStrategies"),
      With(b, "credentialExchangeStrategies", Arr(<<>>)),
      With(b, "credentialExchangeStrategies", Text),
      With(b, "credentialExchangeStrategies", Arr(<<Obj([type |-> Str(<<"o", "a", "u", "t", "h", "2">>)])>>)),
      With(b, "credentialExchangeStrategies",
           Arr(<<Obj([type |-> Str(<<"o", "a", "u", "t", "h", "2">>), callbackUrl |-> Url]),
                 Obj([type |-> Str(<<"s", "a", "m", "l">>)]), Obj([callbackUrl |-> Url])>>)),
      With(b, "apiResources", Text),
      With(b, "apiResources", Arr(<<Null>>)),
      With(b, "eventResources", Arr(<<Num(3), UnknownId>>)),
      Null}

CollectionNames ==
  <<"products", "capabilities", "apiResources", "eventResources",
    "consumptionBundles", "vendors">>

Pool(collection) ==
  CASE collection = "products" -> ProductPool
    [] collection = "capabilities" -> CapabilityPool
    [] collection = "apiResources" -> ApiPool
    [] collection = "eventResources" -> EventPool
    [] collection = "consumptionBundles" -> BundlePool
    [] OTHER -> VendorPool

SemVer == Str(<<"1", ".", "9", ".", "0">>)

EmptyDoc == Obj([openResourceDiscoveryVersion |-> SemVer])

\* Documents with one collection, of any records of its pool.
SingleCollectionDocs ==
  UNION {{With(EmptyDoc, CollectionNames[c], Arr(s)) :
            s \in SeqsUpTo(Pool(CollectionNames[c]), MaxRecords)} :
         c \in 1..Len(CollectionNames)}

\* Documents of vendors and of products that name vendors.
VendorProductDocs ==
  LET vendors == SeqsUpTo({GoodVendor(VendorA), GoodVendor(VendorB)}, MaxRecords)
      products == SeqsUpTo({GoodProduct(ProductA, VendorA), GoodProduct(ProductB, VendorB),
                            GoodProduct(ProductA, UnknownId),
                            GoodProduct(VendorA, VendorA)}, MaxRecords)
  IN {With(With(EmptyDoc, "vendors", Arr(v)), "products", Arr(p)) :
        v \in vendors, p \in products}
     \cup {With(EmptyDoc, "products", Arr(p)) : p \in products}

\* Documents of API resources, event resources, and bundles that list them.
BundleDocs ==
  LET apis == SeqsUpTo({GoodApi}, MaxRecords)
      events == SeqsUpTo({GoodEvent}, MaxRecords)
      bundles == SeqsUpTo({Bundle(<<ApiA>>, <<EventA>>),
                           Bundle(<<Obj([ordId |-> ApiA])>>, <<>>),
                           Bundle(<<UnknownId>>, <<>>),
                           Bundle(<<EventA>>, <<>>),
                           Bundle(<<>>, <<Obj([ordId |-> UnknownId])>>)}, MaxRecords)
  IN {With(With(With(EmptyDoc, "apiResources", Arr(a)), "eventResources", Arr(e)),
           "consumptionBundles", Arr(b)) :
        a \in apis, e \in events, b \in bundles}

\* Documents of all six collections; each is absent, a string, or two
\* records of which the first has a defect.
MixedCollection(collection) ==
  CASE collection = "products" ->
         Arr(<<With(GoodProduct(ProductA, UnknownId), "title", LongText),
               GoodProduct(ProductB, VendorA)>>)
    [] collection = "capabilities" ->
         Arr(<<With(GoodCapability, "type", Str(<<"c", "u", "s", "t", "o", "m">>)), Without(GoodCapability, "title")>>)
    [] collection = "apiResources" ->
         Arr(<<With(GoodApi, "apiProtocol", Str(<<"g", "r", "p", "c">>)),
               Without(GoodApi, "resourceDefinitions")>>)
    [] collection = "eventResources" ->
         Arr(<<With(GoodEvent, "ordId", InvalidId), GoodEvent>>)
    [] collection = "consumptionBundles" ->
         Arr(<<Without(Bundle(<<UnknownId>>, <<>>), "title"), Bundle(<<>>, <<>>)>>)
    [] OTHER ->
         Arr(<<Without(GoodVendor(VendorA), "title"), GoodVendor(ProductB)>>)

RECURSIVE MixedDocsFrom(_)
MixedDocsFrom(c) ==
  IF c > Len(CollectionNames) THEN {EmptyDoc}
  ELSE LET rest == MixedDocsFrom(c + 1)
           name == CollectionNames[c]
       IN rest \cup {With(d, name, MixedCollection(name)) : d \in rest}
               \cup {With(d, name, Text) : d \in rest}

MixedDocs == MixedDocsFrom(1)

\* Top-level values that are not documents, and documents whose version
\* field varies.
TopLevelValues ==
  {Null, Undef, Str(<<"a", "b", "c">>), Str(<<>>), Num(5), Num(0), Arr(<<>>),
   Arr(<<GoodVendor(VendorA)>>), Obj(<<>>)}

VersionDocs ==
  LET d == With(With(EmptyDoc, "vendors", Arr(<<GoodVendor(VendorA)>>)),
                "products", Arr(<<GoodProduct(ProductA, VendorA)>>))
  IN {With(d, "openResourceDiscoveryVersion", v) :
        v \in {Str(<<"1", ".", "9">>), Str(<<"v", "1", ".", "9", ".", "0">>), Str(<<"1", ".", "1", "0", ".", "2", "3">>), Str(<<>>), Num(1), Null}}
     \cup {Without(d, "openResourceDiscoveryVersion"),
           With(d, "products",
                Arr(<<With(With(GoodProduct(ProductA, VendorA), "title", FullText),
                           "shortDescription", FullText)>>))}

GoodRecord(collection) ==
  CASE collection = "products" -> GoodProduct(ProductA, VendorA)
    [] collection = "capabilities" -> GoodCapability
    [] collection = "apiResources" -> GoodApi
    [] collection = "eventResources" -> GoodEvent
    [] collection = "consumptionBundles" -> Bundle(<<>>, <<>>)
    [] OTHER -> GoodVendor(VendorA)

\* Documents of one record that is good but for one field: the field is
\* not there, or is the empty string.
FieldDocs ==
  UNION {UNION {{With(EmptyDoc, CollectionNames[c],
                      Arr(<<Without(GoodRecord(CollectionNames[c]), f)>>)),
                 With(EmptyDoc, CollectionNames[c],
                      Arr(<<With(GoodRecord(CollectionNames[c]), f, Str(<<>>))>>))} :
                f \in DOMAIN GoodRecord(CollectionNames[c]).f} :
         c \in 1..Len(CollectionNames)}

\* Entry points and resource definitions that lack some of their fields, or
\* have a type that is not among the known ones.
EntryPointPool ==
  {GoodEntryPoint, Obj([type |-> Str(<<"r", "e", "s", "t">>)]), Obj([url |-> Url]), Obj(<<>>)}

DefinitionPool ==
  LET d == GoodDefinition(<<"o", "p", "e", "n", "a", "p", "i", "-", "v", "3">>)
  IN {d, GoodDefinition(<<"a", "s", "y", "n", "c", "a", "p", "i", "-", "v", "2">>), GoodDefinition(<<"r", "a", "m", "l">>),
      Without(d, "type"), Without(d, "mediaType"), Without(d, "url"),
      With(Without(d, "url"), "content", Text),
      With(Without(GoodDefinition(<<"r", "a", "m", "l">>), "url"), "content", Text),
      Obj(<<>>)}

\* Documents of one API or event resource whose entry points or resource
\* definitions are of those.
NestedDocs ==
  UNION {{With(EmptyDoc, name, Arr(<<With(GoodRecord(name), "entryPoints", Arr(e))>>)) :
            e \in SeqsUpTo(EntryPointPool, MaxRecords) \ {<<>>}}
         \cup {With(EmptyDoc, name,
                    Arr(<<With(With(GoodRecord(name), "entryPoints", Arr(<<GoodEntryPoint>>)),
                               "resourceDefinitions", Arr(d))>>)) :
                 d \in SeqsUpTo(DefinitionPool, MaxRecords)} :
         name \in {"apiResources", "eventResources"}}

\* Documents of one consumption bundle that lists no resource, with
\* credentialExchangeStrategies that are not a sequence, or are strategies
\* with and without a callbackUrl.
StrategyDocs ==
  LET oauth2 == Obj([type |-> Str(<<"o", "a", "u", "t", "h", "2">>)])
  IN {With(EmptyDoc, "consumptionBundles",
           Arr(<<With(Bundle(<<>>, <<>>), "credentialExchangeStrategies", s)>>)) :
        s \in {Num(0), Num(5), Null, Obj(<<>>), Arr(<<oauth2>>),
               Arr(<<BasicStrategy, oauth2>>),
               Arr(<<With(oauth2, "callbackUrl", Url), With(oauth2, "callbackUrl", Str(<<>>))>>)}}

\* Documents with a defect for every phase: no version, two products with
\* a defect each, a bundle that lists an API resource no record declares;
\* and the same with a record that is null.
OrderDocs ==
  LET p == GoodProduct(ProductA, UnknownId)
      d == With(With(Without(EmptyDoc, "openResourceDiscoveryVersion"), "products",
                     Arr(<<Without(p, "title"), With(p, "ordId", InvalidId)>>)),
                "consumptionBundles", Arr(<<Bundle(<<UnknownId>>, <<>>)>>))
  IN {d, With(d, "vendors", Arr(<<Null>>)),
      With(d, "products", Arr(<<Without(p, "title"), Null>>))}

Documents ==
  SingleCollectionDocs \cup VendorProductDocs \cup BundleDocs \cup MixedDocs
    \cup TopLevelValues \cup VersionDocs \cup FieldDocs \cup NestedDocs \cup StrategyDocs
    \cup OrderDocs

(***************************************************************************)
(* One validateMetadata(metadata, strict) call                             *)
(***************************************************************************)
Init ==
  /\ metadata \in Documents
  /\ strict \in BOOLEAN
  /\ pc = "structure"
  /\ result = FreshResult(strict)
  /\ raised = FALSE
  /\ rules = NewRules
  /\ previous = {}
  /\ calls = 0
  /\ catalog = ORD_CONCEPTS
  /\ request = NoRequest
  /\ fetched = NoFetch
  /\ response = NoResponse
  /\ ServerConstructed
  /\ packageJson = Undef
  /\ suggestionLevel = "detailed"

Next ==
  \/ Structure
  \/ Products
  \/ Capabilities
  \/ ApiResources
  \/ EventResources
  \/ ConsumptionBundles
  \/ Vendors
  \/ CrossReferences

Spec == Init /\ [][Next]_vars

(***************************************************************************)
(* Properties of validateMetadata                                          *)
(***************************************************************************)
Done == pc = "done"

\* The call ended in the catch clause.
Faulted == Done /\ \E i \in 1..Len(result.errors) : result.errors[i].type = "validation_error"

\* The call ran the try block to its end.
CompletedNormally == Done /\ ~raised /\ ~Faulted

\* typeof v === 'object' && v !== null
IsObject(v) == v.k \in {"object", "array"}

\* The records of a collection of the document, and the places
\* <<collection, i>> of the records that are objects.
Records(doc, collection) == IF IsObject(doc) THEN Items(Get(doc, collection)) ELSE <<>>

Places(doc) ==
  UNION {{<<CollectionNames[c], i>> : i \in 1..Len(Records(doc, CollectionNames[c]))} :
         c \in 1..Len(CollectionNames)}

RecordAt(doc, p) == Records(doc, p[1])[p[2]]

ObjectPlaces(doc) == {p \in Places(doc) : RecordAt(doc, p).k = "object"}

\* The ordId values the records of the document declare.
Declaring(doc) == {p \in ObjectPlaces(doc) : Truthy(Get(RecordAt(doc, p), "ordId"))}

DeclaredIds(doc) == {Get(RecordAt(doc, p), "ordId") : p \in Declaring(doc)}

DuplicatedIds(doc) ==
  {Get(RecordAt(doc, p), "ordId") :
     p \in {q \in Declaring(doc) :
              \E o \in Declaring(doc) :
                 o # q /\ Get(RecordAt(doc, o), "ordId") = Get(RecordAt(doc, q), "ordId")}}

Matching(list, type, message, margs) ==
  {i \in 1..Len(list) :
     list[i].type = type /\ list[i].message = message /\ list[i].margs = margs}

\* C1: on every return path of validateMetadata the returned result has
\* valid = true exactly when its errors list is empty, whatever its warnings
\* and suggestions are.
C1_ValidIffNoErrors == Done => (result.valid <=> result.errors = <<>>)

\* A returned result that is valid although it carries warnings.
C1_Witness == Done /\ result.valid /\ result.errors = <<>> /\ result.warnings # <<>>

\* C2 (as claimed): when two distinct records of the document carry the
\* same ordId, the result of a validation that ran to its end has exactly
\* one cross_reference error 'Duplicate ORD ID' for that value and is not
\* valid.
C2_DuplicateReported ==
  CompletedNormally =>
    \A id \in DuplicatedIds(metadata) :
       /\ Cardinality(Matching(result.errors, "cross_reference",
                               "Duplicate ORD ID found: {0}", <<id>>)) = 1
       /\ ~result.valid

\* The failing document of C2: two vendors with one ordId, accepted.
C2_Accepted ==
  /\ CompletedNormally /\ result.valid
  /\ DuplicatedIds(metadata) # {}

\* The references <<place of the bundle, kind, i>> of the consumption
\* bundles of the document, and the ordId a reference names: the reference
\* itself when it is a string, its ordId when it is an object.
RefField(kind) == IF kind = "api" THEN "apiResources" ELSE "eventResources"

BundleRefs(doc) ==
  UNION {UNION {{<<p, kind, i>> :
                   i \in 1..Len(Items(Get(RecordAt(doc, p), RefField(kind))))} :
                kind \in {"api", "event"}} :
         p \in {q \in ObjectPlaces(doc) : q[1] = "consumptionBundles"}}

RefId(doc, r) ==
  LET ref == Items(Get(RecordAt(doc, r[1]), RefField(r[2])))[r[3]]
  IN CASE ref.k = "string" -> ref
       [] ref.k = "object" -> Get(ref, "ordId")
       [] OTHER -> Undef

DanglingRefs(doc) ==
  {r \in BundleRefs(doc) : Truthy(RefId(doc, r)) /\ RefId(doc, r) \notin DeclaredIds(doc)}

UnknownResource(kind) ==
  IF kind = "api"
    THEN "Consumption bundle {0} references unknown API resource: {1}"
    ELSE "Consumption bundle {0} references unknown event resource: {1}"

ReportedAsError(doc, r, list) ==
  \E i \in Matching(list, "cross_reference", UnknownResource(r[2]),
                     <<OrUnknown(Get(RecordAt(doc, r[1]), "ordId")), RefId(doc, r)>>) :
     list[i].severity = "error"

VendorIds(doc) ==
  {Get(RecordAt(doc, p), "ordId") : p \in {q \in Declaring(doc) : q[1] = "vendors"}}

DanglingVendors(doc) ==
  {p \in ObjectPlaces(doc) :
     /\ p[1] = "products"
     /\ Truthy(Get(RecordAt(doc, p), "vendor"))
     /\ Get(RecordAt(doc, p), "vendor") \notin VendorIds(doc)}

UnknownVendor(list) ==
  {i \in 1..Len(list) :
     /\ list[i].type = "cross_reference"
     /\ list[i].message = "Product {0} references unknown vendor: {1}"}

\* The four-part ordId pattern, read off the positions of the colons.
IsOrdId(v) ==
  /\ v.k = "string"
  /\ LET s == v.s
         colons == {i \in 1..Len(s) : s[i] = ":"}
     IN /\ Cardinality(colons) = 3
        /\ \A i \in colons : i > 1 /\ i - 1 \notin colons
        /\ LET last == CHOOSE i \in colons : \A j \in colons : j <= i
           IN /\ \A i \in 1..last : s[i] \in IdChars \cup {":"}
              /\ Len(s) >= last + 2
              /\ s[last + 1] = "v"
              /\ \A i \in (last + 2)..Len(s) : s[i] \in Digits

\* major.minor.patch, decimal digits only.
IsSemVer(v) ==
  /\ v.k = "string"
  /\ LET s == v.s
         dots == {i \in 1..Len(s) : s[i] = "."}
     IN /\ Cardinality(dots) = 2
        /\ \A i \in 1..Len(s) : s[i] \in Digits \cup {"."}
        /\ 1 \notin dots /\ Len(s) \notin dots
        /\ \A i \in dots : i + 1 \notin dots

IsText(v) == v.k = "string" /\ Len(v.s) >= MinLength /\ Len(v.s) <= MaxLength

HasOnly(record, names) == record.k = "object" /\ DOMAIN record.f \subseteq names

\* A document of a semver version, vendors and products whose records
\* conform, with pairwise distinct ordIds; the vendors the products name
\* may or may not be declared.
ConformingVendor(v) ==
  /\ HasOnly(v, {"ordId", "title"})
  /\ IsOrdId(Get(v, "ordId")) /\ IsText(Get(v, "title"))

ConformingProduct(p) ==
  /\ HasOnly(p, {"ordId", "title", "shortDescription", "vendor"})
  /\ IsOrdId(Get(p, "ordId")) /\ IsText(Get(p, "title"))
  /\ IsText(Get(p, "shortDescription"))
  /\ IsOrdId(Get(p, "vendor"))

Conforming(doc) ==
  /\ HasOnly(doc, {"openResourceDiscoveryVersion", "vendors", "products"})
  /\ IsSemVer(Get(doc, "openResourceDiscoveryVersion"))
  /\ \A c \in {"vendors", "products"} :
        Get(doc, c).k \in {"undefined", "array"}
  /\ \A i \in 1..Len(Records(doc, "vendors")) :
        ConformingVendor(Records(doc, "vendors")[i])
  /\ \A i \in 1..Len(Records(doc, "products")) :
        ConformingProduct(Records(doc, "products")[i])
  /\ DuplicatedIds(doc) = {}

C5_ConformingIsValid ==
  (Done /\ ~strict /\ Conforming(metadata) /\ DanglingVendors(metadata) = {}) =>
     ~raised /\ result.valid /\ result.errors = <<>>

\* A valid result for a conforming document with a vendor and a product
\* of it, in standard mode.
C5_Witness ==
  /\ Done /\ ~strict /\ Conforming(metadata) /\ DanglingVendors(metadata) = {}
  /\ Records(metadata, "vendors") # <<>> /\ Records(metadata, "products") # <<>>
  /\ result.valid /\ result.errors = <<>>

\* The fields with a format rule that the validator of a collection checks.
KindFields(collection) ==
  CASE collection = "apiResources" -> {"ordId", "title", "shortDescription", "apiProtocol"}
    [] collection = "eventResources" ->
         {"ordId", "title", "shortDescription", "eventResourceType"}
    [] collection = "vendors" -> {"ordId", "title"}
    [] OTHER -> {"ordId", "title", "shortDescription"}

\* A string that breaks the format rule of the field.
Violates(field, v) ==
  /\ v.k = "string"
  /\ CASE field = "ordId" -> ~IsOrdId(v)
       [] field \in {"title", "shortDescription"} -> Len(v.s) > MaxLength
       [] field = "apiProtocol" -> v.s \notin ApiProtocols
       [] field = "eventResourceType" -> v.s \notin EventResourceTypes
       [] OTHER -> FALSE

\* The <<place, field>> pairs of the document with such a value.
Violations(doc) ==
  UNION {{<<p, f>> : f \in {g \in KindFields(p[1]) \cap DOMAIN RecordAt(doc, p).f :
                              Violates(g, Get(RecordAt(doc, p), g))}} :
         p \in ObjectPlaces(doc)}

FieldErrors(list, p, f) ==
  {i \in 1..Len(list) :
     /\ list[i].type = "field_validation" /\ list[i].severity = "error"
     /\ list[i].context = Context(p[1], p[2] - 1)
     /\ list[i].property = f}

IsValidationResult(res) ==
  /\ res.valid \in BOOLEAN
  /\ DOMAIN res = {"valid", "errors", "warnings", "suggestions", "validationLevel"}
  /\ \A i \in 1..Len(res.errors) : res.errors[i].severity = "error"

\* C7: for a top-level input that is an object (an array too), whatever
\* its collections and records, validateMetadata does not raise: no step
\* raises, and the call ends returning a ValidationResult, not valid when
\* a step met a fault.
C7_NeverRaises ==
  IsObject(metadata) =>
    /\ ~raised
    /\ Done => IsValidationResult(result) /\ (Faulted => ~result.valid)

\* A fault on an object input, returned as a result that is not valid.
C7_Witness ==
  /\ Done /\ IsObject(metadata) /\ Faulted
  /\ ~raised /\ ~result.valid /\ IsValidationResult(result)

IsPrefix(a, b) == Len(a) <= Len(b) /\ SubSeq(b, 1, Len(a)) = a

Phases ==
  <<"structure", "products", "capabilities", "apiResources", "eventResources",
    "consumptionBundles", "vendors", "crossReferences">>

PhaseRank(phase) == CHOOSE i \in 1..Len(Phases) : Phases[i] = phase

\* The phase a finding comes from.
PhaseOf(finding) ==
  CASE finding.type = "structure" -> "structure"
    [] finding.type = "cross_reference" -> "crossReferences"
    [] OTHER -> finding.context.coll

AllFindings(res) ==
  {res.errors[i] : i \in {j \in 1..Len(res.errors) : res.errors[j].type # "validation_error"}}
    \cup Range(res.warnings) \cup Range(res.suggestions)

\* The records of the collection of a phase whose validation throws.
Throwers(phase) ==
  {i \in 1..Len(Records(metadata, phase)) :
     validateRecord(phase, Records(metadata, phase)[i], i - 1, strict).threw}

\* C8: a step that ends in the catch clause keeps the errors, warnings and
\* suggestions collected so far, in order, as prefixes of the lists of the
\* returned result; exactly one validation_error is in the errors, as the
\* last entry; no finding comes from a later phase, nor, in a collection
\* phase, from a record after the first one that threw; valid is false.
C8_FaultKeepsPartialResult ==
  [][(pc' = "done" /\ result'.errors # <<>>
        /\ result'.errors[Len(result'.errors)].type = "validation_error") =>
       /\ IsPrefix(result.errors, result'.errors)
       /\ IsPrefix(result.warnings, result'.warnings)
       /\ IsPrefix(result.suggestions, result'.suggestions)
       /\ Cardinality({i \in 1..Len(result'.errors) :
                         result'.errors[i].type = "validation_error"}) = 1
       /\ result'.valid = FALSE
       /\ raised' = FALSE
       /\ \A f \in AllFindings(result') : PhaseRank(PhaseOf(f)) <= PhaseRank(pc)
       /\ \A f \in AllFindings(result') :
             PhaseOf(f) = pc /\ pc # "crossReferences" =>
               /\ Throwers(pc) # {}
               /\ \A i \in Throwers(pc) : f.context.idx + 1 <= i]_vars

\* A fault after an error and a warning were collected, both returned.
C8_Witness ==
  /\ Faulted
  /\ Len(result.errors) >= 2 /\ result.warnings # <<>>
  /\ \E f \in AllFindings(result) : PhaseOf(f) \notin {"structure", "crossReferences"}
  /\ ~result.valid

NotAnObject == StructureError("", "Metadata must be a valid JSON object")

\* C9 (as claimed): for a top-level value that is not an object (null,
\* undefined, a string, a number) validateMetadata returns a result that
\* is not valid, with the structure error 'Metadata must be a valid JSON
\* object' as its one and only error and nothing from a later phase.
C9_OnlyTheStructureError ==
  (Done /\ ~IsObject(metadata)) =>
     /\ ~raised /\ ~result.valid
     /\ result.errors = <<NotAnObject>>
     /\ result.warnings = <<>> /\ result.suggestions = <<>>

\* The failing input of C9: for null the later phases run, and the result
\* has a second error.
C9_SecondError ==
  /\ Done /\ metadata = Null
  /\ Len(result.errors) = 2
  /\ result.errors[1] = NotAnObject
  /\ result.errors[2].type = "validation_error"

\* C10 (as claimed): validateMetadata of a non-object raises to its caller
\* and returns no result.
C10_NonObjectRaises == (Done /\ ~IsObject(metadata)) => raised

\* C10 (amended): validateMetadata of a non-object does not raise; it
\* returns a result that is not valid and whose first error is the
\* structure error 'Metadata must be a valid JSON object'.
C10_NonObjectIsReported ==
  ~IsObject(metadata) =>
     /\ ~raised
     /\ Done => /\ ~result.valid
                /\ result.errors # <<>>
                /\ result.errors[1] = NotAnObject

\* The result returned for null.
C10_Witness ==
  /\ Done /\ metadata = Null
  /\ ~raised /\ ~result.valid
  /\ result.errors[1] = NotAnObject

\* C11: the results of validateMetadata(doc, true) and
\* validateMetadata(doc, false) have the same errors, the same warnings and
\* the same valid flag, and the standard-mode result has no suggestions.
C11_StrictAddsSuggestionsOnly ==
  Done =>
    LET other == validateMetadata(metadata, ~strict)
        standard == IF strict THEN other ELSE result
    IN /\ other.errors = result.errors
       /\ other.warnings = result.warnings
       /\ other.valid = result.valid
       /\ standard.suggestions = <<>>

\* A strict-mode result with errors, warnings and suggestions whose
\* standard-mode counterpart has the same errors and warnings.
C11_Witness ==
  /\ Done /\ strict
  /\ result.errors # <<>> /\ result.warnings # <<>> /\ result.suggestions # <<>>
  /\ validateMetadata(metadata, FALSE).errors = result.errors
  /\ validateMetadata(metadata, FALSE).suggestions = <<>>

\* The ordId values the records of one collection declare.
DeclaredIn(doc, collection) ==
  {Get(RecordAt(doc, p), "ordId") : p \in {q \in Declaring(doc) : q[1] = collection}}

\* The collection a reference of this kind is looked up in.
TargetOf(kind) == IF kind = "api" THEN "apiResources" ELSE "eventResources"

\* The cross_reference entries of the list that name this reference.
FindingsFor(doc, r, list) ==
  Matching(list, "cross_reference", UnknownResource(r[2]),
           <<OrUnknown(Get(RecordAt(doc, r[1]), "ordId")), RefId(doc, r)>>)

\* C18 as stated: a reference of a consumption bundle to an ordId that any
\* record of any collection declares produces no cross-reference finding.
C18_DeclaredAnywhereResolves ==
  CompletedNormally =>
    \A r \in BundleRefs(metadata) :
       (Truthy(RefId(metadata, r)) /\ RefId(metadata, r) \in DeclaredIds(metadata)) =>
          /\ FindingsFor(metadata, r, result.errors) = {}
          /\ FindingsFor(metadata, r, result.warnings) = {}

\* C18 amended: a reference of a consumption bundle counts as resolved
\* exactly when a record of the collection it points into declares the
\* ordId: apiResources for an apiResources entry, eventResources for an
\* eventResources entry. An ordId declared in another collection only is
\* reported as an unknown resource, an error, like one declared nowhere.
C18_DeclaredInItsCollectionResolves ==
  CompletedNormally =>
    \A r \in BundleRefs(metadata) :
       Truthy(RefId(metadata, r)) =>
          /\ FindingsFor(metadata, r, result.errors) = {}
               <=> RefId(metadata, r) \in DeclaredIn(metadata, TargetOf(r[2]))
          /\ FindingsFor(metadata, r, result.warnings) = {}

\* An apiResources entry names the ordId of an event resource of the
\* document and is reported as an unknown API resource.
C18_Witness ==
  /\ CompletedNormally
  /\ \E r \in BundleRefs(metadata) :
        /\ r[2] = "api"
        /\ RefId(metadata, r) \in DeclaredIn(metadata, "eventResources")
        /\ RefId(metadata, r) \notin DeclaredIn(metadata, "apiResources")
        /\ ReportedAsError(metadata, r, result.errors)
  /\ ~result.valid

\* The number of members of a collection of the document, as its length
\* tells it.
Members(doc, collection) ==
  LET v == Get(doc, collection)
  IN CASE v.k = "array" -> Len(v.a)
       [] v.k = "string" -> Len(v.s)
       [] OTHER -> 0

NoResourcesDefined(list) ==
  {i \in 1..Len(list) :
     /\ list[i].type = "structure"
     /\ list[i].message
          = "No resources defined. Consider adding products, capabilities, APIs, or events"}

\* C19 as stated: the structure phase adds the 'No resources defined'
\* warning exactly when none of the six collections of the document has a
\* member.
C19_WarnsIffAllSixEmpty ==
  (Done /\ IsObject(metadata)) =>
     (NoResourcesDefined(result.warnings) # {}
        <=> \A c \in 1..Len(CollectionNames) : Members(metadata, CollectionNames[c]) = 0)

\* C19 amended: the structure phase adds the 'No resources defined'
\* warning, once, exactly when none of products, capabilities, apiResources
\* and eventResources has a member; vendors and consumptionBundles do not
\* count, so a document whose only non-empty collection is one of these
\* two gets the warning.
C19_WarnsIffTheFourEmpty ==
  (Done /\ IsObject(metadata)) =>
     /\ NoResourcesDefined(result.warnings) # {}
          <=> \A c \in {"products", "capabilities", "apiResources", "eventResources"} :
                 Members(metadata, c) = 0
     /\ Cardinality(NoResourcesDefined(result.warnings)) <= 1
     /\ NoResourcesDefined(result.errors) = {}

\* A document with vendors and nothing else got the warning.
C19_Witness ==
  /\ Done /\ IsObject(metadata)
  /\ Members(metadata, "vendors") > 0
  /\ \A c \in 1..Len(CollectionNames) :
        CollectionNames[c] # "vendors" => Members(metadata, CollectionNames[c]) = 0
  /\ NoResourcesDefined(result.warnings) # {}

\* The record at place p does not have the field.
Lacks(doc, p, field) == field \notin DOMAIN RecordAt(doc, p).f

\* The suggestions of the list made for the record at place p.
SuggestionsFor(p, list) ==
  {i \in 1..Len(list) :
     /\ list[i].type = "enhancement"
     /\ list[i].context.coll = p[1] /\ list[i].context.idx = p[2] - 1}

\* In strict mode, each record of these collections that lacks the field
\* has exactly one suggestion, and no error or warning about the field.
SuggestedOnce(collections, field) ==
  (CompletedNormally /\ strict) =>
     \A p \in ObjectPlaces(metadata) :
        (p[1] \in collections /\ Lacks(metadata, p, field)) =>
           /\ Cardinality(SuggestionsFor(p, result.suggestions)) = 1
           /\ \A i \in 1..Len(result.errors) :
                 ~(result.errors[i].context = Context(p[1], p[2] - 1)
                     /\ result.errors[i].property = field)
           /\ \A i \in 1..Len(result.warnings) :
                 ~(result.warnings[i].context = Context(p[1], p[2] - 1)
                     /\ result.warnings[i].property = field)

\* C20: in strict mode every Product and every Capability record without
\* description yields exactly one suggestion for that record and no error
\* or warning, and every API or Event resource without resourceDefinitions
\* yields exactly one suggestion for that record.
C20_MissingOptionalIsSuggested ==
  /\ SuggestedOnce({"products", "capabilities"}, "description")
  /\ SuggestedOnce({"apiResources", "eventResources"}, "resourceDefinitions")

\* The part of C20 the code keeps: products, API and event resources.
C20_ProductsAndResourcesAreSuggested ==
  /\ SuggestedOnce({"products"}, "description")
  /\ SuggestedOnce({"apiResources", "eventResources"}, "resourceDefinitions")

\* A strict validation that ran to its end left a capability without
\* description with no suggestion.
C20_CapabilityNotSuggested ==
  /\ CompletedNormally /\ strict
  /\ \E p \in ObjectPlaces(metadata) :
        /\ p[1] = "capabilities" /\ Lacks(metadata, p, "description")
        /\ SuggestionsFor(p, result.suggestions) = {}

\* The fields a record of the collection must have.
RequiredFields(collection) ==
  CASE collection = "products" -> {"ordId", "title", "shortDescription", "vendor"}
    [] collection = "capabilities" -> {"ordId", "title", "shortDescription", "type"}
    [] collection = "apiResources" ->
         {"ordId", "title", "shortDescription", "apiProtocol", "entryPoints"}
    [] collection = "eventResources" ->
         {"ordId", "title", "shortDescription", "eventResourceType"}
    [] collection = "consumptionBundles" ->
         {"ordId", "title", "shortDescription", "credentialExchangeStrategies"}
    [] OTHER -> {"ordId", "title"}

\* The <<place, field>> pairs of the document where a record does not have
\* a field it must have; for entryPoints, where it has not one entry point.
MissingFields(doc) ==
  UNION {{<<p, f>> : f \in {g \in RequiredFields(p[1]) :
                              \/ Lacks(doc, p, g)
                              \/ g = "entryPoints" /\ Get(RecordAt(doc, p), g) = Arr(<<>>)}} :
         p \in ObjectPlaces(doc)}

ShortTexts(doc) ==
  UNION {{<<p, f>> : f \in {g \in {"title", "shortDescription"}
                               \cap KindFields(p[1]) \cap DOMAIN RecordAt(doc, p).f :
                              /\ Get(RecordAt(doc, p), g).k = "string"
                              /\ Len(Get(RecordAt(doc, p), g).s) < MinLength}} :
         p \in ObjectPlaces(doc)}

TooShort(field) ==
  field \o " is below minimum length of " \o ToString(MinLength) \o " characters"

\* C22: when validation runs to its end, a title or shortDescription of
\* fewer than 1 character has an error with the 'below minimum length'
\* message, which is none of the messages of the other rules.
C22_ShortTextIsTooShort ==
  CompletedNormally =>
    \A t \in ShortTexts(metadata) :
       \E i \in FieldErrors(result.errors, t[1], t[2]) :
          result.errors[i].message = TooShort(t[2])

\* A completed validation reported an empty title as a missing field and
\* by no other error.
C22_ReportedAsMissing ==
  /\ CompletedNormally
  /\ \E t \in ShortTexts(metadata) :
        /\ t[2] = "title"
        /\ Get(RecordAt(metadata, t[1]), "title") = Str(<<>>)
        /\ Cardinality(FieldErrors(result.errors, t[1], t[2])) = 1
        /\ \A i \in FieldErrors(result.errors, t[1], t[2]) :
              result.errors[i].message = "Missing required field: title"

\* The places of the products whose vendor is a string with a character
\* outside letters, digits, '.', '_', ':' and '-'.
MalformedVendors(doc) ==
  {p \in ObjectPlaces(doc) :
     /\ p[1] = "products"
     /\ Get(RecordAt(doc, p), "vendor").k = "string"
     /\ \E i \in 1..Len(Get(RecordAt(doc, p), "vendor").s) :
           Get(RecordAt(doc, p), "vendor").s[i] \notin IdChars \cup {":"}}

\* C23: when validation runs to its end, a product whose vendor breaks
\* the vendor-reference pattern has a field_validation error for the
\* property vendor, and the result is not valid.
C23_MalformedVendorIsError ==
  CompletedNormally =>
    \A p \in MalformedVendors(metadata) :
       /\ FieldErrors(result.errors, p, "vendor") # {}
       /\ ~result.valid

\* A completed validation found a document valid whose product names the
\* vendor 'bad vendor!', with no error for the property vendor.
C23_MalformedVendorAccepted ==
  /\ CompletedNormally
  /\ \E p \in MalformedVendors(metadata) :
        /\ Get(RecordAt(metadata, p), "vendor") = Str(<<"b", "a", "d", " ", "v", "e", "n", "d", "o", "r", "!">>)
        /\ FieldErrors(result.errors, p, "vendor") = {}
  /\ result.valid /\ result.errors = <<>>


\* The <<place, field, index>> triples of the entries of the entryPoints or
\* the resourceDefinitions sequence of the API and event resources of the
\* document.
NestedEntries(doc, field) ==
  UNION {{<<p, field, i>> : i \in 1..Len(Items(Get(RecordAt(doc, p), field)))} :
         p \in {q \in ObjectPlaces(doc) : q[1] \in {"apiResources", "eventResources"}}}

EntryAt(doc, e) == Items(Get(RecordAt(doc, e[1]), e[2]))[e[3]]

EntryLacks(doc, e, name) == EntryAt(doc, e).k = "object" /\ name \notin DOMAIN EntryAt(doc, e).f

\* The entries of the list that are about the nested entry.
EntryFindings(list, e, severity) ==
  {i \in 1..Len(list) :
     /\ list[i].severity = severity
     /\ list[i].context = SubContext(Context(e[1][1], e[1][2] - 1), e[2], e[3] - 1)}

EntryErrors(list, e, property) ==
  {i \in EntryFindings(list, e, "error") : list[i].property = property}

\* The resource definition types known for the resources of a collection.
KnownDefinitionTypes(collection) ==
  IF collection = "apiResources"
    THEN {Str(<<"o", "p", "e", "n", "a", "p", "i", "-", "v", "3">>), Str(<<"e", "d", "m", "x">>), Str(<<"c", "s", "d", "l", "-", "j", "s", "o", "n">>), Str(<<"w", "s", "d", "l", "-", "v", "1">>),
          Str(<<"r", "f", "c", "m", "e", "t", "a", "d", "a", "t", "a", "-", "v", "1">>)}
    ELSE {Str(<<"a", "s", "y", "n", "c", "a", "p", "i", "-", "v", "2">>), Str(<<"a", "s", "y", "n", "c", "a", "p", "i", "-", "v", "3">>)}

\* The resource definition has every field it must have.
CompleteDefinition(doc, e) ==
  /\ EntryAt(doc, e).k = "object"
  /\ {"type", "mediaType"} \subseteq DOMAIN EntryAt(doc, e).f
  /\ {"url", "content"} \cap DOMAIN EntryAt(doc, e).f # {}
  /\ \A name \in {"type", "mediaType", "url", "content"} \cap DOMAIN EntryAt(doc, e).f :
        LET v == EntryAt(doc, e).f[name] IN v.k = "string" /\ v.s # <<>>

\* Every entry point that lacks type or url has an error for it.
EntryPointsChecked(doc, res) ==
  \A e \in NestedEntries(doc, "entryPoints") :
     \A name \in {"type", "url"} :
        EntryLacks(doc, e, name) => EntryErrors(res.errors, e, name) # {}

\* Every resource definition that lacks type, mediaType, or both url and
\* content has an error for it.
DefinitionsChecked(doc, res) ==
  \A e \in NestedEntries(doc, "resourceDefinitions") :
     /\ \A name \in {"type", "mediaType"} :
           EntryLacks(doc, e, name) => EntryErrors(res.errors, e, name) # {}
     /\ EntryLacks(doc, e, "url") /\ EntryLacks(doc, e, "content")
          => EntryErrors(res.errors, e, "url") # {}

\* A complete resource definition of a type that is not known has a
\* warning and no error.
UnknownTypeOnlyWarns(doc, res) ==
  \A e \in NestedEntries(doc, "resourceDefinitions") :
     CompleteDefinition(doc, e) /\ EntryAt(doc, e).f["type"] \notin KnownDefinitionTypes(e[1][1])
       => /\ EntryFindings(res.warnings, e, "warning") # {}
          /\ EntryFindings(res.errors, e, "error") = {}

C24_EventEntryPointUnchecked ==
  /\ CompletedNormally
  /\ metadata = With(EmptyDoc, "eventResources",
                     Arr(<<With(GoodEvent, "entryPoints", Arr(<<Obj([type |-> Str(<<"r", "e", "s", "t">>)])>>))>>))
  /\ EntryLacks(metadata, <<<<"eventResources", 1>>, "entryPoints", 1>>, "url")
  /\ result.errors = <<>>
  /\ result.valid

BundlePlaces(doc) == {p \in ObjectPlaces(doc) : p[1] = "consumptionBundles"}

\* The bundle has no credentialExchangeStrategies, or a value that is not a
\* sequence, or the empty sequence.
NoStrategies(doc, p) ==
  LET strategies == Get(RecordAt(doc, p), "credentialExchangeStrategies")
  IN strategies.k # "array" \/ strategies.a = <<>>

\* The strategies of the bundles of the document that are of type oauth2
\* and have no callbackUrl, as <<place, field, index>>.
OAuth2WithoutCallback(doc) ==
  {e \in UNION {{<<p, "credentialExchangeStrategies", i>> :
                   i \in 1..Len(Items(Get(RecordAt(doc, p), "credentialExchangeStrategies")))} :
                p \in BundlePlaces(doc)} :
     /\ EntryAt(doc, e).k = "object"
     /\ Get(EntryAt(doc, e), "type") = Str(<<"o", "a", "u", "t", "h", "2">>)
     /\ EntryLacks(doc, e, "callbackUrl")}

\* The bundle lists no API resource and no event resource.
ListsNoResource(doc, p) ==
  \A field \in {"apiResources", "eventResources"} :
     Lacks(doc, p, field) \/ Get(RecordAt(doc, p), field) = Arr(<<>>)

\* The entries of the list that say of the record that it lists no resource.
NoResourceFindings(list, p) ==
  {i \in 1..Len(list) :
     /\ list[i].context = Context(p[1], p[2] - 1)
     /\ list[i].message = "Consumption bundle should reference at least one API or event resource"}

Stage(finding) ==
  CASE finding.type = "structure" -> 1
    [] finding.type = "cross_reference" -> 3
    [] finding.type = "validation_error" -> 4
    [] OTHER -> 2

\* The entries of the list are in the order of the stages, and those of one
\* collection in the order of its records.
Ordered(list) ==
  \A i, j \in 1..Len(list) :
     i < j =>
       /\ Stage(list[i]) <= Stage(list[j])
       /\ Stage(list[i]) = 2 /\ Stage(list[j]) = 2
            /\ list[i].context.coll = list[j].context.coll
            => list[i].context.idx <= list[j].context.idx
       /\ Stage(list[i]) # 4

\* C26: in each of the lists errors, warnings and suggestions of a returned
\* result, every entry of the structure phase precedes every entry of the
\* collections, every entry of the collections precedes every entry of the
\* cross-reference phase, within one collection the entries of a record
\* precede those of every later record, and a validation_error entry, if
\* there is one, is the last.
C26_EntriesAreInPhaseOrder ==
  Done => Ordered(result.errors) /\ Ordered(result.warnings) /\ Ordered(result.suggestions)

\* A returned result whose errors are one of the structure phase, then one
\* for each of two records of a collection, then one of the cross-reference
\* phase.
C26_Witness ==
  /\ Done
  /\ \E a, b, c, d \in 1..Len(result.errors) :
        /\ a < b /\ b < c /\ c < d
        /\ Stage(result.errors[a]) = 1
        /\ Stage(result.errors[b]) = 2 /\ Stage(result.errors[c]) = 2
        /\ result.errors[b].context.coll = result.errors[c].context.coll
        /\ result.errors[b].context.idx < result.errors[c].context.idx
        /\ Stage(result.errors[d]) = 3

\* A returned result whose errors end with the validation_error of the
\* catch clause, after an entry of the structure phase and one of a
\* collection.
C26_FaultIsLast ==
  /\ Done
  /\ Len(result.errors) >= 3
  /\ Stage(result.errors[Len(result.errors)]) = 4
  /\ \E a, b \in 1..Len(result.errors) :
        a < b /\ Stage(result.errors[a]) = 1 /\ Stage(result.errors[b]) = 2
(***************************************************************************)
(* Calls on one shared OrdValidator                                        *)
(***************************************************************************)
\* Calls made on the validator after the first.
MaxCalls == 2

\* A conforming document, one with findings of every kind, one whose
\* products is a string, and null.
SharedDocuments ==
  {With(With(EmptyDoc, "vendors", Arr(<<GoodVendor(VendorA)>>)),
        "products", Arr(<<GoodProduct(ProductA, VendorA)>>)),
   With(EmptyDoc, "products",
        Arr(<<With(GoodProduct(ProductA, UnknownId), "ordId", InvalidId)>>)),
   With(With(EmptyDoc, "apiResources", Arr(<<Without(GoodApi, "resourceDefinitions")>>)),
        "products", Text),
   Null}

SharedArgs ==
  {Obj([concept |-> Str(<<"p", "r", "o", "d", "u", "c", "t">>)]), Obj([concept |-> Str(<<"n", "o", "p", "e">>)]), Null}

SharedInit ==
  /\ metadata \in SharedDocuments
  /\ strict \in BOOLEAN
  /\ pc = "structure"
  /\ result = FreshResult(strict)
  /\ raised = FALSE
  /\ rules = NewRules
  /\ previous = {}
  /\ calls = 0
  /\ catalog = ORD_CONCEPTS
  /\ request = NoRequest
  /\ fetched = NoFetch
  /\ response = NoResponse
  /\ ServerConstructed
  /\ packageJson = Undef
  /\ suggestionLevel = "detailed"

\* A variant of Call in which the result object is a field of the
\* validator, kept from one call to the next; C12 does not hold of it.
CallKeepingResult ==
  /\ pc = "done" /\ calls < MaxCalls
  /\ previous' = previous \cup {[metadata |-> metadata, strict |-> strict, result |-> result]}
  /\ calls' = calls + 1
  /\ metadata' \in SharedDocuments
  /\ strict' \in BOOLEAN
  /\ pc' = "structure"
  /\ result' = result
  /\ UNCHANGED <<raised, rules, toolVars, projectVars, httpVars, indexerVars>>

\* The call has returned; the next validateMetadata call on the validator
\* begins, with any arguments and a new result object.
Call ==
  /\ pc = "done" /\ calls < MaxCalls
  /\ previous' = previous \cup {[metadata |-> metadata, strict |-> strict, result |-> result]}
  /\ calls' = calls + 1
  /\ metadata' \in SharedDocuments
  /\ strict' \in BOOLEAN
  /\ pc' = "structure"
  /\ result' = FreshResult(strict')
  /\ UNCHANGED <<raised, rules, toolVars, projectVars, httpVars, indexerVars>>

\* A handleExplainConcept call made while the validator is in use.
Explain ==
  /\ \E args \in SharedArgs :
        /\ request' = [entry |-> "handleExplainConcept", argument |-> args]
        /\ response' = handleExplainConcept(args)
  /\ UNCHANGED <<metadata, strict, pc, result, raised, validatorVars, catalog, fetched,
                 projectVars, httpVars, indexerVars>>

SharedNext ==
  \/ Structure
  \/ Products
  \/ Capabilities
  \/ ApiResources
  \/ EventResources
  \/ ConsumptionBundles
  \/ Vendors
  \/ CrossReferences
  \/ Call
  \/ Explain

SharedSpec == SharedInit /\ [][SharedNext]_vars

\* C12: on a shared validator, whatever calls came before and whatever
\* explain calls were made meanwhile, the result of a validateMetadata call
\* is the one its arguments determine: it equals the result of every
\* earlier call with the same arguments; and no step changes the rule
\* table, the concept catalog or, during a call, the arguments.
C12_ResultDependsOnArgumentsOnly ==
  /\ [](Done =>
          /\ result = validateMetadata(metadata, strict)
          /\ \A p \in previous :
                (p.metadata = metadata /\ p.strict = strict) =>
                   /\ p.result.errors = result.errors
                   /\ p.result.warnings = result.warnings
                   /\ p.result.suggestions = result.suggestions)
  /\ [][/\ rules' = rules
        /\ catalog' = catalog
        /\ pc # "done" => (metadata' = metadata /\ strict' = strict)]_vars

\* The second call with the same arguments, after a call with others and
\* an explain call, returns the errors and warnings of the first.
C12_Witness ==
  /\ Done /\ calls = 2
  /\ response.o = "returned"
  /\ result.errors # <<>> /\ result.warnings # <<>>
  /\ \E p \in previous : p.metadata = metadata /\ p.strict = strict /\ p.result = result
  /\ \E p \in previous : p.metadata # metadata

(***************************************************************************)
(* Calls of the concept functions and of the tool handlers                 *)
(***************************************************************************)
Lowered(s) == [i \in 1..Len(s) |-> LowerChar(s[i])]

Uppered(s) == [i \in 1..Len(s) |-> UpperChar(s[i])]

\* Every letter in the other case.
Swapped(s) == [i \in 1..Len(s) |-> IF LowerChar(s[i]) = s[i] THEN UpperChar(s[i])
                                                             ELSE LowerChar(s[i])]

\* The first letter in the other case only.
FirstSwapped(s) == [i \in 1..Len(s) |-> IF i = 1 THEN Swapped(s)[i] ELSE s[i]]

Casings(s) == {s, Lowered(s), Uppered(s), Swapped(s), FirstSwapped(s)}

CatalogKeys == {ORD_CONCEPTS[i].key : i \in 1..Len(ORD_CONCEPTS)}

\* Names in some casing of a key, the same within white space, near
\* misses, blank strings, and values that are no strings.
KeyNames == UNION {Casings(key) : key \in CatalogKeys}

PaddedNames ==
  {<<" ">> \o <<"P", "r", "o", "d", "u", "c", "t">> \o <<" ">>, <<"\t">> \o <<"v", "e", "n", "d", "o", "r">> \o <<"\n">>,
   <<" ">> \o <<"G", "R", "O", "U", "P">>, <<"T", "o", "m", "b", "s", "t", "o", "n", "e">> \o <<" ", " ">>}

OtherNames ==
  {<<"P", "r", "o", "d">>, <<"P", "r", "o", "d", "u", "c", "t", "x">>, <<"P", "r", "o", "d", "u", "c", "t", " ", "V", "e", "n", "d", "o", "r">>, <<"G", "r", "o", "u", "p", " ", "T", "y", "p", "e">>,
   <<"N", "o", "t", "A", "R", "e", "a", "l", "C", "o", "n", "c", "e", "p", "t">>, <<"A", "P", "I">>, <<" ">> \o <<"n", "o", "p", "e">> \o <<" ">>,
   <<"c", "o", "n", "s", "t", "r", "u", "c", "t", "o", "r">>, <<"t", "o", "S", "t", "r", "i", "n", "g">>}

BlankNames == {<<>>, <<" ">>, <<" ", " ", " ">>, <<"\t">>, <<"\n", " ">>}

NonStrings == {Null, Undef, Num(5), Num(0), Arr(<<>>), Obj(<<>>)}

ConceptNameInputs ==
  {Str(s) : s \in KeyNames \cup PaddedNames \cup OtherNames \cup BlankNames} \cup NonStrings

\* The args of handleExplainConcept: objects with any concept or none,
\* and values that are no objects.
ExplainArgs ==
  {Obj([concept |-> v]) : v \in ConceptNameInputs}
  \cup {Obj([other |-> Str(<<"P", "r", "o", "d", "u", "c", "t">>)])}
  \cup {Null, Undef, Str(<<"P", "r", "o", "d", "u", "c", "t">>), Str(<<>>), Num(5), Num(0), Arr(<<>>), Obj(<<>>)}

FetchOutcomes ==
  {Response(Str(<<"#", " ", "O", "R", "D">>)), Response(Str(<<>>)), Response(Obj(<<>>)), Response(Undef),
   Timeout, Status(404), Status(500), NetworkError}

ToolNames ==
  {Str(<<"g", "e", "t", "_", "o", "r", "d", "_", "s", "p", "e", "c", "i", "f", "i", "c", "a", "t", "i", "o", "n">>), Str(<<"e", "x", "p", "l", "a", "i", "n", "_", "o", "r", "d", "_", "c", "o", "n", "c", "e", "p", "t">>),
   Str(<<"n", "o", "n", "_", "e", "x", "i", "s", "t", "e", "n", "t", "_", "t", "o", "o", "l">>), Str(<<"E", "X", "P", "L", "A", "I", "N", "_", "O", "R", "D", "_", "C", "O", "N", "C", "E", "P", "T">>), Str(<<>>)}

\* The params of a tools/call request as the request schema lets them
\* through: a name that is a string, arguments that are an object or absent.
ToolArguments ==
  {Undef, Obj(<<>>), Obj([other |-> Str(<<"P", "r", "o", "d", "u", "c", "t">>)])}
  \cup {Obj([concept |-> v]) :
          v \in {Str(s) : s \in Casings(<<"P", "r", "o", "d", "u", "c", "t">>) \cup PaddedNames \cup OtherNames
                                \cup BlankNames}
                \cup NonStrings}

ToolParams ==
  {Obj([name |-> n, arguments |-> a]) : n \in ToolNames, a \in ToolArguments}
  \cup {Obj([name |-> n]) : n \in ToolNames}

ToolRequests ==
  {[entry |-> "validateConceptName", argument |-> v] : v \in ConceptNameInputs}
  \cup {[entry |-> "buildConceptExplanation", argument |-> v] :
          v \in {Str(s) : s \in CatalogKeys \cup OtherNames \cup {Lowered(<<"P", "r", "o", "d", "u", "c", "t">>)}
                                \cup {<<"N", "o", "n", "E", "x", "i", "s", "t", "e", "n", "t">>, <<"v", "a", "l", "u", "e", "O", "f">>, <<"_", "_", "p", "r", "o", "t", "o", "_", "_">>, <<>>}}
                \cup NonStrings}
  \cup {[entry |-> "handleExplainConcept", argument |-> v] : v \in ExplainArgs}
  \cup {[entry |-> "handleGetSpecification", argument |-> Undef]}
  \cup {[entry |-> "_handleToolCall", argument |-> v] : v \in ToolParams}

\* Whether the call of this request reaches axios.get.
Fetches(req) ==
  \/ req.entry = "handleGetSpecification"
  \/ req.entry = "_handleToolCall"
       /\ Get(req.argument, "name") = Str(<<"g", "e", "t", "_", "o", "r", "d", "_", "s", "p", "e", "c", "i", "f", "i", "c", "a", "t", "i", "o", "n">>)

ToolInit ==
  /\ request \in ToolRequests
  /\ fetched \in (IF Fetches(request) THEN FetchOutcomes ELSE {NoFetch})
  /\ response = NoResponse
  /\ ServerConstructed
  /\ pc = "called"
  /\ raised = FALSE
  /\ catalog = ORD_CONCEPTS
  /\ metadata = Undef
  /\ strict = FALSE
  /\ result = FreshResult(FALSE)
  /\ rules = NewRules
  /\ previous = {}
  /\ calls = 0
  /\ packageJson = Undef
  /\ suggestionLevel = "detailed"

\* The call ends: with the value it returns, or raising what it throws.
Ends(outcome) ==
  /\ response' = outcome
  /\ raised' = (outcome.o = "thrown")
  /\ pc' = "done"
  /\ UNCHANGED <<metadata, strict, result, validatorVars, catalog, request, fetched,
                 projectVars, httpVars, indexerVars>>

ValidateConceptName ==
  /\ pc = "called" /\ request.entry = "validateConceptName"
  /\ Ends(validateConceptName(request.argument))

BuildConceptExplanation ==
  /\ pc = "called" /\ request.entry = "buildConceptExplanation"
  /\ Ends(buildConceptExplanation(request.argument))

HandleExplainConcept ==
  /\ pc = "called" /\ request.entry = "handleExplainConcept"
  /\ Ends(handleExplainConcept(request.argument))

HandleGetSpecification ==
  /\ pc = "called" /\ request.entry = "handleGetSpecification"
  /\ Ends(handleGetSpecification(fetched))

HandleToolCall ==
  /\ pc = "called" /\ request.entry = "_handleToolCall"
  /\ Ends(handleToolCall(request.argument, fetched))

ToolNext ==
  \/ ValidateConceptName
  \/ BuildConceptExplanation
  \/ HandleExplainConcept
  \/ HandleGetSpecification
  \/ HandleToolCall

ToolSpec == ToolInit /\ [][ToolNext]_vars

\* The request named this function, and the call is over.
Called(entry) == Done /\ request.entry = entry

\* The text of the one text item of a handler's return value.
TextOf(value) == value.content[1].text

IsSingleText(value) ==
  /\ Len(value.content) = 1
  /\ value.content[1].type = "text"

\* C13: for every key K of the catalog and every casing of K,
\* validateConceptName returns exactly K, and handleExplainConcept returns
\* one text item whose text begins with the line '# ORD Concept: K' and
\* has a '## Description' section; buildConceptExplanation throws on no
\* name that validateConceptName returned.
C13_EveryCasingIsExplained ==
  /\ \A key \in CatalogKeys :
        /\ (Called("validateConceptName") /\ request.argument.k = "string"
              /\ request.argument.s \in Casings(key))
             => response = Returned(Str(key))
        /\ (Called("handleExplainConcept") /\ request.argument.k = "object"
              /\ "concept" \in DOMAIN request.argument.f
              /\ request.argument.f.concept.k = "string"
              /\ request.argument.f.concept.s \in Casings(key))
             => /\ response.o = "returned"
                /\ IsSingleText(response.value)
                /\ SubSeq(TextOf(response.value), 1, 3)
                     = <<Lit("# ORD Concept: "), Str(key), Lit("\n\n")>>
                /\ \E i \in 1..Len(TextOf(response.value)) - 1 :
                      /\ TextOf(response.value)[i] = Lit("## Description\n")
                      /\ TextOf(response.value)[i + 1].k = "description"
                      /\ TextOf(response.value)[i + 1].of = key
  /\ (Called("validateConceptName") /\ response.o = "returned")
       => buildConceptExplanation(response.value).o = "returned"

\* handleExplainConcept has explained IntegrationDependency, asked for in
\* lower case.
C13_Witness ==
  /\ Called("handleExplainConcept")
  /\ request.argument = Obj([concept |-> Str(<<"i", "n", "t", "e", "g", "r", "a", "t", "i", "o", "n", "d", "e", "p", "e", "n", "d", "e", "n", "c", "y">>)])
  /\ response.o = "returned"
  /\ TextOf(response.value)[2] = Str(<<"I", "n", "t", "e", "g", "r", "a", "t", "i", "o", "n", "D", "e", "p", "e", "n", "d", "e", "n", "c", "y">>)

Blanks == {" ", "\t", "\n"}

\* s without the blanks at its two ends.
RECURSIVE Trimmed(_)
Trimmed(s) ==
  IF s = <<>> THEN s
  ELSE IF Head(s) \in Blanks THEN Trimmed(Tail(s))
  ELSE IF s[Len(s)] \in Blanks THEN Trimmed(SubSeq(s, 1, Len(s) - 1))
  ELSE s

\* s is a catalog key but for the case of its letters.
FoldsToAKey(s) == \E key \in CatalogKeys : Lowered(key) = Lowered(s)

\* The error names the concept as unknown and lists every catalog key.
IsUnknownConcept(error) ==
  /\ \E i \in 1..Len(error.message) : error.message[i] = Lit("Unknown concept: ")
  /\ \E i \in 1..Len(error.message) :
        /\ error.message[i].k = "joined"
        /\ {error.message[i].items[j] : j \in 1..Len(error.message[i].items)} = CatalogKeys

\* C14 as stated: validateConceptName succeeds on a string exactly when the
\* string equals a catalog key after case-folding, and fails on every other
\* non-empty string with an 'Unknown concept' error listing all keys.
C14_EqualsAKeyAfterCaseFolding ==
  (Called("validateConceptName") /\ request.argument.k = "string") =>
     /\ response.o = "returned" <=> FoldsToAKey(request.argument.s)
     /\ (~FoldsToAKey(request.argument.s) /\ request.argument.s # <<>>) =>
           (response.o = "thrown" /\ IsUnknownConcept(response.error))

\* C14 amended: validateConceptName succeeds on a string exactly when the
\* string without its leading and trailing white space equals a catalog
\* key after case-folding, and then returns that key; on every other
\* string that is not empty or all white space it fails with an 'Unknown
\* concept' error listing all keys.
C14_EqualsAKeyAfterTrimAndCaseFolding ==
  (Called("validateConceptName") /\ request.argument.k = "string") =>
     LET name == Trimmed(request.argument.s)
     IN /\ response.o = "returned" <=> FoldsToAKey(name)
        /\ response.o = "returned" =>
              (response.value.k = "string" /\ response.value.s \in CatalogKeys
                 /\ Lowered(response.value.s) = Lowered(name))
        /\ (~FoldsToAKey(name) /\ name # <<>>) =>
              (response.o = "thrown" /\ IsUnknownConcept(response.error))

\* ' Product ' was accepted as Product.
C14_Witness ==
  /\ Called("validateConceptName")
  /\ request.argument = Str(<<" ">> \o <<"P", "r", "o", "d", "u", "c", "t">> \o <<" ">>)
  /\ ~FoldsToAKey(request.argument.s)
  /\ response = Returned(Str(<<"P", "r", "o", "d", "u", "c", "t">>))


\* One of the two errors validateConceptName has for an argument that is
\* no name at all.
IsInvalidArgument(error) ==
  error.message \in {<<Lit("Concept name must be a non-empty string")>>,
                     <<Lit("Concept name cannot be empty or whitespace only")>>}

AllBlank(s) == \A i \in 1..Len(s) : s[i] \in Blanks

\* The args give no concept: none, null or the empty string.
NoConceptIn(args) ==
  \/ args.k = "array"
  \/ /\ args.k = "object"
     /\ \/ "concept" \notin DOMAIN args.f
        \/ args.f.concept \in {Null, Undef, Str(<<>>)}

\* C15: validateConceptName fails with an invalid-argument error on every
\* input that is empty, all white space or not a string, and
\* handleExplainConcept fails on every args that is null, undefined, not an
\* object, or whose concept is missing, null or empty; no explanation is
\* returned in any of these cases.
C15_InvalidArgumentsAreRefused ==
  /\ (Called("validateConceptName")
        /\ (request.argument.k # "string" \/ AllBlank(request.argument.s)))
       => (response.o = "thrown" /\ IsInvalidArgument(response.error))
  /\ (Called("handleExplainConcept")
        /\ (request.argument.k \notin {"object", "array"} \/ NoConceptIn(request.argument)))
       => (response.o = "thrown" /\ raised)

\* Three spaces were refused as a concept name.
C15_Witness ==
  /\ Called("validateConceptName")
  /\ request.argument = Str(<<" ", " ", " ">>)
  /\ response = Thrown(Error(<<Lit("Concept name cannot be empty or whitespace only")>>))


KnownTools == {Str(<<"g", "e", "t", "_", "o", "r", "d", "_", "s", "p", "e", "c", "i", "f", "i", "c", "a", "t", "i", "o", "n">>), Str(<<"e", "x", "p", "l", "a", "i", "n", "_", "o", "r", "d", "_", "c", "o", "n", "c", "e", "p", "t">>)}

\* What the handler of the request's tool ends with.
HandlerOutcome(params) ==
  IF params.f.name = Str(<<"g", "e", "t", "_", "o", "r", "d", "_", "s", "p", "e", "c", "i", "f", "i", "c", "a", "t", "i", "o", "n">>)
    THEN handleGetSpecification(fetched)
    ELSE handleExplainConcept(Get(params, "arguments"))

\* C16: _handleToolCall returns a result for every tools/call request and
\* never throws: when the tool name is unknown or the handler raised, the
\* result has isError = true and exactly one text item beginning 'Error:';
\* otherwise it is the handler's content and has no isError flag.
C16_ToolCallAlwaysReturns ==
  Called("_handleToolCall") =>
     LET params == request.argument
         failed == params.f.name \notin KnownTools \/ HandlerOutcome(params).o = "thrown"
     IN /\ response.o = "returned" /\ ~raised
        /\ failed =>
              /\ "isError" \in DOMAIN response.value
              /\ response.value.isError = TRUE
              /\ IsSingleText(response.value)
              /\ TextOf(response.value)[1] = Lit("Error: ")
        /\ ~failed =>
              /\ response.value = HandlerOutcome(params).value
              /\ "isError" \notin DOMAIN response.value

\* The handler of explain_ord_concept raised on an unknown concept, and the
\* call returned the error as a result.
C16_Witness ==
  /\ Called("_handleToolCall")
  /\ request.argument.f.name = Str(<<"e", "x", "p", "l", "a", "i", "n", "_", "o", "r", "d", "_", "c", "o", "n", "c", "e", "p", "t">>)
  /\ HandlerOutcome(request.argument).o = "thrown"
  /\ IsUnknownConcept(HandlerOutcome(request.argument).error)
  /\ response.o = "returned"
  /\ response.value.isError
  /\ SubSeq(TextOf(response.value), 1, 2) = <<Lit("Error: "), Lit("Tool execution failed: ")>>

(***************************************************************************)
(* validateCapProject                                                      *)
(***************************************************************************)
\* What reading package.json can end with besides a parsed value: readFile
\* rejects, or JSON.parse throws.
NoFile == [k |-> "ENOENT"]

NotJson == [k |-> "SyntaxError"]

\* { type, message, severity }
ProjectFinding(type, message, severity) ==
  [type |-> type, message |-> message, severity |-> severity]

NoOrdMetadata ==
  [type |-> "enhancement", message |-> "No ORD metadata found in package.json",
   suggestion |-> "Add open-resource-discovery section to make services discoverable",
   severity |-> "info"]

FreshProjectResult(level) ==
  [valid |-> TRUE, errors |-> <<>>, warnings |-> <<>>, suggestions |-> <<>>,
   validationLevel |-> level]

\* { ...packageJson.dependencies, ...packageJson.devDependencies }[name]
Dependency(pkg, name) ==
  LET dev == Get(pkg, "devDependencies")
      dep == Get(pkg, "dependencies")
  IN IF dev.k = "object" /\ name \in DOMAIN dev.f THEN dev.f[name]
     ELSE IF dep.k = "object" /\ name \in DOMAIN dep.f THEN dep.f[name]
     ELSE Undef

isCapProject(pkg) ==
  \/ Truthy(Dependency(pkg, "@sap/cds"))
  \/ Truthy(Dependency(pkg, "@sap/cds-dk"))
  \/ Truthy(Dependency(pkg, "@cap-js/ord"))

\* A variant of validateOrdSection that validates the section whether it
\* is there or not; C17 does not hold of it.
validateOrdSectionAlways(pkg, level) ==
  CHOOSE section \in
    {[run |-> [Nothing EXCEPT !.errors = ordValidation.errors,
                              !.warnings = ordValidation.warnings,
                              !.suggestions = ordValidation.suggestions],
      validated |-> TRUE] :
       ordValidation \in {validateMetadata(Get(pkg, "open-resource-discovery"),
                                           level = "comprehensive")}} : TRUE

\* The ORD metadata of package.json: validated and its findings merged if
\* it is there, a suggestion to add it if not.
validateOrdSection(pkg, level) ==
  IF Truthy(Get(pkg, "open-resource-discovery"))
    THEN CHOOSE section \in
           {[run |-> [Nothing EXCEPT !.errors = ordValidation.errors,
                                     !.warnings = ordValidation.warnings,
                                     !.suggestions = ordValidation.suggestions],
             validated |-> TRUE] :
              ordValidation \in {validateMetadata(Get(pkg, "open-resource-discovery"),
                                                  level = "comprehensive")}} : TRUE
    ELSE [run |-> PushSuggestion(NoOrdMetadata), validated |-> FALSE]

\* validateCapProject by what reading package.json ended with: the result
\* it returns, and whether it called validateMetadata.
validateCapProject(file, level) ==
  IF file \in {NoFile, NotJson}
    THEN [result |-> Merge(FreshProjectResult(level),
                           PushError(ProjectFinding("project_structure",
                                       "No valid package.json found", "error"))),
          validated |-> FALSE]
  ELSE IF ReadThrows(file)
    THEN [result |-> [FreshProjectResult(level) EXCEPT
                        !.valid = FALSE,
                        !.errors = <<ProjectFinding("validation_error",
                                       "CAP project validation failed: " \o NullRead,
                                       "error")>>],
          validated |-> FALSE]
  ELSE CHOOSE call \in
         {[result |-> setValid(Merge(Merge(FreshProjectResult(level),
                                           IF isCapProject(file) THEN Nothing
                                           ELSE PushWarning(ProjectFinding("project_structure",
                                                  "This does not appear to be a CAP project",
                                                  "warning"))),
                                     ord.run)),
           validated |-> ord.validated] :
            ord \in {validateOrdSection(file, level)}} : TRUE

Versions == Str(<<"^", "7">>)

\* package.json objects by their dependencies.
Packages ==
  {Obj(<<>>),
   Obj([name |-> Str(<<"a", "p", "p">>), dependencies |-> Obj("@sap/cds" :> Versions)]),
   Obj([name |-> Str(<<"a", "p", "p">>), dependencies |-> Obj("express" :> Versions),
        devDependencies |-> Obj("@cap-js/ord" :> Versions)]),
   Obj([name |-> Str(<<"a", "p", "p">>), dependencies |-> Obj("express" :> Versions)]),
   Obj([dependencies |-> Null, devDependencies |-> Obj("@sap/cds-dk" :> Str(<<>>))])}

\* Values of the open-resource-discovery section: falsy ones, documents,
\* and values that are no documents.
OrdSections == {Null, Str(<<>>), Num(0), Obj(<<>>), Text} \cup SharedDocuments

\* What package.json can hold or fail with.
PackageJsons ==
  {NoFile, NotJson, Null, Num(5), Str(<<"a", "p", "p">>), Arr(<<>>)}
  \cup Packages
  \cup {With(p, "open-resource-discovery", s) : p \in Packages, s \in OrdSections}

SuggestionLevels == {"basic", "detailed", "comprehensive"}

ProjectInit ==
  /\ packageJson \in PackageJsons
  /\ suggestionLevel \in SuggestionLevels
  /\ pc = "called"
  /\ result = FreshProjectResult(suggestionLevel)
  /\ raised = FALSE
  /\ metadata = Undef
  /\ strict = FALSE
  /\ rules = NewRules
  /\ previous = {}
  /\ calls = 0
  /\ catalog = ORD_CONCEPTS
  /\ request = NoRequest
  /\ fetched = NoFetch
  /\ response = NoResponse
  /\ ServerConstructed

\* One call of validateCapProject; metadata, strict and calls record the
\* call of validateMetadata it makes, if it makes one.
ValidateCapProject ==
  /\ pc = "called"
  /\ \E call \in {validateCapProject(packageJson, suggestionLevel)} :
        /\ result' = call.result
        /\ IF call.validated
             THEN /\ metadata' = Get(packageJson, "open-resource-discovery")
                  /\ strict' = (suggestionLevel = "comprehensive")
                  /\ calls' = calls + 1
             ELSE UNCHANGED <<metadata, strict, calls>>
  /\ pc' = "done"
  /\ UNCHANGED <<raised, rules, previous, toolVars, projectVars, httpVars, indexerVars>>

ProjectNext == ValidateCapProject

ProjectSpec == ProjectInit /\ [][ProjectNext]_vars

\* package.json was read and parsed, to a value other than null.
Parsed == packageJson \notin {NoFile, NotJson, Null}

HasOrdSection ==
  /\ packageJson.k = "object"
  /\ "open-resource-discovery" \in DOMAIN packageJson.f

\* C17: for a project whose package.json was read and parsed (to a value
\* other than null) and has no open-resource-discovery section,
\* validateCapProject returns exactly one suggestion, that to add the
\* section, no error, no warning other than the one for a project that is
\* no CAP project, and has not called validateMetadata.
C17_MissingSectionIsSuggested ==
  (Done /\ Parsed /\ ~HasOrdSection) =>
     /\ result.suggestions = <<NoOrdMetadata>>
     /\ result.errors = <<>>
     /\ result.valid
     /\ \A i \in 1..Len(result.warnings) :
           result.warnings[i].message = "This does not appear to be a CAP project"
     /\ calls = 0 /\ metadata = Undef

\* A CAP project without the section: the suggestion and nothing else.
C17_Witness ==
  /\ Done /\ Parsed /\ ~HasOrdSection
  /\ Truthy(Dependency(packageJson, "@sap/cds"))
  /\ result.suggestions = <<NoOrdMetadata>>
  /\ result.warnings = <<>> /\ result.errors = <<>>
  /\ calls = 0


(***************************************************************************)
(* buildConceptExplanation called directly                                 *)
(***************************************************************************)
ConceptNotFound(name) == Error(<<Lit("Concept "), name, Lit(" not found")>>)

\* C27: buildConceptExplanation called with a string throws the error
\* 'Concept <name> not found' for every name that is not a key of the
\* catalog, the names an object inherits ('constructor', 'toString') among
\* them, and returns a text only for a key of the catalog.
C27_OnlyKeysAreExplained ==
  Called("buildConceptExplanation") /\ request.argument.k = "string" =>
    IF request.argument.s \in CatalogKeys
      THEN response.o = "returned"
      ELSE response = Thrown(ConceptNotFound(request.argument))

\* buildConceptExplanation('constructor') returned a text: the title, and a
\* description that reads 'undefined'.
C27_InheritedNameIsExplained ==
  /\ Called("buildConceptExplanation")
  /\ request.argument = Str(<<"c", "o", "n", "s", "t", "r", "u", "c", "t", "o", "r">>)
  /\ request.argument.s \notin CatalogKeys
  /\ ~raised
  /\ response = Returned(<<Lit("# ORD Concept: "), Str(<<"c", "o", "n", "s", "t", "r", "u", "c", "t", "o", "r">>), Lit("\n\n"),
                           Lit("## Description\n"), Undef, Lit("\n\n")>>)

\* For every name that is neither a key nor inherited, the statement holds.
C27_OtherNamesAreNotFound ==
  Called("buildConceptExplanation") /\ request.argument.k = "string"
    /\ request.argument.s \notin {<<"c", "o", "n", "s", "t", "r", "u", "c", "t", "o", "r">>, <<"t", "o", "S", "t", "r", "i", "n", "g">>, <<"v", "a", "l", "u", "e", "O", "f">>, <<"_", "_", "p", "r", "o", "t", "o", "_", "_">>} =>
    IF request.argument.s \in CatalogKeys
      THEN response.o = "returned"
      ELSE response = Thrown(ConceptNotFound(request.argument))

(***************************************************************************)
(* The valid flag of validateCapProject                                    *)
(***************************************************************************)
\* C28: every result validateCapProject returns, whether package.json was
\* unreadable or invalid, had an ORD section or none, or an unexpected
\* fault occurred, has valid = true exactly when its errors are empty.
C28_ProjectValidIffNoErrors ==
  Done => (result.valid <=> result.errors = <<>>)

\* validateCapProject of a project without readable package.json returned
\* valid = true together with the error 'No valid package.json found'.
C28_ValidWithAnError ==
  /\ Done
  /\ packageJson = NoFile
  /\ result.valid
  /\ Len(result.errors) = 1
  /\ result.errors[1].message = "No valid package.json found"
  /\ calls = 0

\* For every project whose package.json was read and parsed, the statement
\* holds.
C28_ParsedProjectValidIffNoErrors ==
  Done /\ packageJson \notin {NoFile, NotJson} => (result.valid <=> result.errors = <<>>)

(***************************************************************************)
(* POST /mcp, the JSON-RPC endpoint of the CAP-integrated server           *)
(***************************************************************************)
\* res.status(status).json(value) and res.status(status).end(): the status
\* and the body of a response sent.
NoBody == [k |-> "none"]

Send(status, json) == [status |-> status, json |-> json]

\* What JSON.stringify makes of { jsonrpc: '2.0', id: id, ...rest }: a
\* property whose value is undefined is left out.
JsonRpc(id, rest) ==
  IF id = Undef THEN ("jsonrpc" :> "2.0") @@ rest
  ELSE ("jsonrpc" :> "2.0") @@ ("id" :> id) @@ rest

\* id || null
OrNull(id) == IF Truthy(id) THEN id ELSE Null

InvalidRequest == [code |-> -32600, message |-> "Invalid Request"]

InternalError(error) == [code |-> -32603, message |-> "Internal error", data |-> error.message]

\* req.body?.id
BodyId(reqBody) == IF ReadThrows(reqBody) THEN Undef ELSE Get(reqBody, "id")

\* The switch over the method: the result, or the error thrown; `outcome`
\* is what the specification request comes back with if one is made.
dispatch(method, params, outcome) ==
  LET given == IF Truthy(params) THEN params ELSE Obj(<<>>)
      name == Get(given, "name")
      args == Get(given, "arguments")
      uri == Get(given, "uri")
  IN CASE method = Str(<<"i", "n", "i", "t", "i", "a", "l", "i", "z", "e">>) ->
            Returned([protocolVersion |-> "2024-11-05", serverInfo |-> "ORD MCP Server"])
       [] method = Str(<<"t", "o", "o", "l", "s", "/", "l", "i", "s", "t">>) -> Returned([tools |-> "TOOLS"])
       [] method = Str(<<"t", "o", "o", "l", "s", "/", "c", "a", "l", "l">>) ->
            (CASE name = Str(<<"g", "e", "t", "_", "o", "r", "d", "_", "s", "p", "e", "c", "i", "f", "i", "c", "a", "t", "i", "o", "n">>) -> handleGetSpecification(outcome)
               [] name = Str(<<"e", "x", "p", "l", "a", "i", "n", "_", "o", "r", "d", "_", "c", "o", "n", "c", "e", "p", "t">>) -> handleExplainConcept(args)
               [] OTHER -> Thrown(Error(<<Lit("Unknown tool: "), name>>)))
       [] method = Str(<<"r", "e", "s", "o", "u", "r", "c", "e", "s", "/", "l", "i", "s", "t">>) -> Returned([resources |-> "RESOURCES"])
       [] method = Str(<<"r", "e", "s", "o", "u", "r", "c", "e", "s", "/", "r", "e", "a", "d">>) ->
            IF uri = Str(<<"o", "r", "d", ":", "/", "/", "s", "p", "e", "c", "i", "f", "i", "c", "a", "t", "i", "o", "n", "/", "l", "a", "t", "e", "s", "t">>)
              THEN LET spec == fetchSpecification(outcome)
                   IN IF spec.o = "thrown" THEN spec
                      ELSE Returned([contents |->
                             <<[uri |-> uri, mimeType |-> "text/markdown", text |-> spec.value]>>])
              ELSE Thrown(Error(<<Lit("Unknown resource: "), uri>>))
       [] OTHER -> Thrown(Error(<<Lit("Unknown method: "), method>>))

\* The handler of app.post('/mcp'): the responses it sends, in order.
postMcp(reqBody, outcome) ==
  IF ReadThrows(reqBody)
    THEN <<Send(200, JsonRpc(OrNull(BodyId(reqBody)),
                             [error |-> InternalError(Error(<<Lit(NullRead)>>))]))>>
  ELSE
    LET id == Get(reqBody, "id")
        method == Get(reqBody, "method")
    IN IF Get(reqBody, "jsonrpc") # Str(<<"2", ".", "0">>) \/ ~Truthy(method)
         THEN <<Send(400, JsonRpc(OrNull(id), [error |-> InvalidRequest]))>>
       ELSE IF method = Str(<<"n", "o", "t", "i", "f", "i", "c", "a", "t", "i", "o", "n", "s", "/", "i", "n", "i", "t", "i", "a", "l", "i", "z", "e", "d">>)
         THEN <<Send(200, NoBody)>>
       ELSE
         CHOOSE sends \in
           {IF handled.o = "thrown"
              THEN <<Send(200, JsonRpc(OrNull(BodyId(reqBody)),
                                       [error |-> InternalError(handled.error)]))>>
              ELSE <<Send(200, JsonRpc(id, [result |-> handled.value]))>> :
            handled \in {dispatch(method, Get(reqBody, "params"), outcome)}} : TRUE

\* The ids, methods and params of the requests a client posts.
RequestIds == {Null, Num(0), Num(1), Num(7), Str(<<>>), Str(<<"a">>)}

Methods ==
  {Str(<<"i", "n", "i", "t", "i", "a", "l", "i", "z", "e">>), Str(<<"t", "o", "o", "l", "s", "/", "l", "i", "s", "t">>), Str(<<"t", "o", "o", "l", "s", "/", "c", "a", "l", "l">>),
   Str(<<"r", "e", "s", "o", "u", "r", "c", "e", "s", "/", "l", "i", "s", "t">>), Str(<<"r", "e", "s", "o", "u", "r", "c", "e", "s", "/", "r", "e", "a", "d">>),
   Str(<<"n", "o", "t", "i", "f", "i", "c", "a", "t", "i", "o", "n", "s", "/", "i", "n", "i", "t", "i", "a", "l", "i", "z", "e", "d">>), Str(<<"n", "o", "/", "s", "u", "c", "h">>), Str(<<>>), Num(5)}

Params ==
  {Null, Obj(<<>>),
   Obj([name |-> Str(<<"g", "e", "t", "_", "o", "r", "d", "_", "s", "p", "e", "c", "i", "f", "i", "c", "a", "t", "i", "o", "n">>)]),
   Obj([name |-> Str(<<"e", "x", "p", "l", "a", "i", "n", "_", "o", "r", "d", "_", "c", "o", "n", "c", "e", "p", "t">>),
        arguments |-> Obj([concept |-> Str(<<"p", "r", "o", "d", "u", "c", "t">>)])]),
   Obj([name |-> Str(<<"e", "x", "p", "l", "a", "i", "n", "_", "o", "r", "d", "_", "c", "o", "n", "c", "e", "p", "t">>),
        arguments |-> Obj([concept |-> Str(<<"n", "o", "p", "e">>)])]),
   Obj([name |-> Str(<<"e", "x", "p", "l", "a", "i", "n", "_", "o", "r", "d", "_", "c", "o", "n", "c", "e", "p", "t">>)]),
   Obj([name |-> Str(<<"n", "o", "_", "s", "u", "c", "h", "_", "t", "o", "o", "l">>)]),
   Obj([uri |-> Str(<<"o", "r", "d", ":", "/", "/", "s", "p", "e", "c", "i", "f", "i", "c", "a", "t", "i", "o", "n", "/", "l", "a", "t", "e", "s", "t">>)]),
   Obj([uri |-> Str(<<"o", "r", "d", ":", "/", "/", "o", "t", "h", "e", "r">>)])}

\* The bodies express.json() hands to the handler: objects of any of these
\* members, each there or not; an array; and no body at all.
Optional(name, values) == {<<>>} \cup {name :> v : v \in values}

Bodies ==
  {Obj(j @@ i @@ m @@ p) :
     j \in Optional("jsonrpc", {Str(<<"2", ".", "0">>), Str(<<"1", ".", "0">>)}),
     i \in Optional("id", RequestIds),
     m \in Optional("method", Methods),
     p \in Optional("params", Params)}
  \cup {Arr(<<>>), Undef}

\* Whether handling this body reaches the specification request.
FetchesSpecification(reqBody) ==
  /\ ~ReadThrows(reqBody)
  /\ Get(reqBody, "jsonrpc") = Str(<<"2", ".", "0">>)
  /\ \/ /\ Get(reqBody, "method") = Str(<<"t", "o", "o", "l", "s", "/", "c", "a", "l", "l">>)
        /\ Truthy(Get(reqBody, "params"))
        /\ Get(Get(reqBody, "params"), "name") = Str(<<"g", "e", "t", "_", "o", "r", "d", "_", "s", "p", "e", "c", "i", "f", "i", "c", "a", "t", "i", "o", "n">>)
     \/ /\ Get(reqBody, "method") = Str(<<"r", "e", "s", "o", "u", "r", "c", "e", "s", "/", "r", "e", "a", "d">>)
        /\ Truthy(Get(reqBody, "params"))
        /\ Get(Get(reqBody, "params"), "uri") = Str(<<"o", "r", "d", ":", "/", "/", "s", "p", "e", "c", "i", "f", "i", "c", "a", "t", "i", "o", "n", "/", "l", "a", "t", "e", "s", "t">>)

HttpInit ==
  /\ body \in Bodies
  /\ fetched \in (IF FetchesSpecification(body)
                    THEN {Response(Str(<<"#", " ", "O", "R", "D">>)), Response(Undef), Timeout, Status(404)}
                    ELSE {NoFetch})
  /\ sent = <<>>
  /\ pc = "received"
  /\ cache = <<>>
  /\ before = <<>>
  /\ lastUpdated = Null
  /\ op = "constructor"
  /\ requests = [key \in CacheKeys |-> <<>>]
  /\ raised = FALSE
  /\ catalog = ORD_CONCEPTS
  /\ metadata = Undef
  /\ strict = FALSE
  /\ result = FreshResult(FALSE)
  /\ rules = NewRules
  /\ previous = {}
  /\ calls = 0
  /\ request = NoRequest
  /\ response = NoResponse
  /\ packageJson = Undef
  /\ suggestionLevel = "detailed"

\* The handler runs on the request received.
PostMcp ==
  /\ pc = "received"
  /\ sent' = postMcp(body, fetched)
  /\ pc' = "done"
  /\ UNCHANGED <<metadata, strict, result, raised, validatorVars, toolVars, projectVars,
                 body, indexerVars>>

HttpNext == PostMcp

HttpSpec == HttpInit /\ [][HttpNext]_vars

\* The request has an id.
HasId == body.k = "object" /\ "id" \in DOMAIN body.f

\* The bodies of the responses sent that are JSON-RPC responses.
JsonRpcResponses == {i \in 1..Len(sent) : sent[i].json # NoBody}

\* C29: when the handler of POST /mcp has run, exactly one HTTP response
\* was sent, and if it has a JSON-RPC body (a result, error -32600 or error
\* -32603) and the request has an id, the id of the body is the id of the
\* request, whatever the id is, 0 included.
C29_ResponseCarriesRequestId ==
  Done =>
    /\ Len(sent) = 1
    /\ \A i \in JsonRpcResponses :
          HasId => "id" \in DOMAIN sent[i].json /\ sent[i].json["id"] = body.f["id"]

\* A request with id 0 and a method the server does not know was answered
\* with error -32603 and id null.
C29_ZeroIdAnsweredWithNull ==
  /\ Done
  /\ body = Obj([jsonrpc |-> Str(<<"2", ".", "0">>), id |-> Num(0), method |-> Str(<<"n", "o", "/", "s", "u", "c", "h">>)])
  /\ Len(sent) = 1
  /\ sent[1].status = 200
  /\ sent[1].json["id"] = Null
  /\ sent[1].json["error"].code = -32603

\* Every request receives exactly one response, and the id of a successful
\* response, and of an error response to a request whose id is truthy or
\* null, is the id of the request.
C29_OneResponseAndTruthyIdsCarried ==
  Done =>
    /\ Len(sent) = 1
    /\ \A i \in JsonRpcResponses :
          HasId /\ ("result" \in DOMAIN sent[i].json \/ Truthy(body.f["id"]) \/ body.f["id"] = Null)
            => "id" \in DOMAIN sent[i].json /\ sent[i].json["id"] = body.f["id"]

(***************************************************************************)
(* OrdDocumentationIndexer (src/src/indexer/ordDocIndexer.js): the cache   *)
(* of fetched documentation                                                *)
(***************************************************************************)
\* this.cache.set(key, value) on the Map c.
Set(c, key, value) == (key :> value) @@ c

\* What a fetch method did: the cache it leaves, whether it threw, and the
\* network requests it made, TRUE for one that succeeded.
Fetched(c, threw, made) == [cache |-> c, threw |-> threw, requests |-> made]

\* The specification texts the source, the disk and the assets hold.
SpecV1 == Str(<<"#", " ", "v", "1">>)

SpecV2 == Str(<<"#", " ", "v", "2">>)

Fallback == Str(<<"#", " ", "o", "f", "f", "l", "i", "n", "e">>)

\* fetchSpecification of the indexer. o.get is what axios.get comes back
\* with, o.written whether fs.writeFile succeeds, o.fallback the content of
\* assets/specification.md, undefined if it cannot be read.
indexerFetchSpecification(c, o) ==
  LET got == o.get.kind = "response"
      c1 == IF got THEN Set(c, "specification", o.get.data) ELSE c
  IN IF got /\ o.written THEN Fetched(c1, FALSE, <<TRUE>>)
     ELSE IF "specification" \in DOMAIN c1 THEN Fetched(c1, FALSE, <<got>>)
     ELSE IF o.fallback = Undef THEN Fetched(c1, TRUE, <<got>>)
     ELSE Fetched(Set(c1, "specification", o.fallback), ~o.written, <<got>>)

\* name.endsWith(suffix)
endsWith(name, suffix) ==
  /\ Len(name) >= Len(suffix)
  /\ SubSeq(name, Len(name) - Len(suffix) + 1, Len(name)) = suffix

\* The file name suffixes each fetch method keeps.
Suffixes(key) ==
  CASE key = "schemas" -> {<<".", "j", "s", "o", "n">>}
    [] key = "examples" -> {<<".", "j", "s", "o", "n">>, <<".", "y", "a", "m", "l">>}
    [] OTHER -> {<<".", "m", "d">>}

\* yaml.load(data)
Yaml(data) == [k |-> "yaml", of |-> data]

\* What `for (const file of data)` visits: the items of an array, the
\* characters of a string; any other value is not iterable.
Iterable(data) == data.k \in {"array", "string"}

Elements(data) ==
  IF data.k = "array" THEN data.a ELSE [i \in 1..Len(data.s) |-> Str(<<data.s[i]>>)]

\* The body of the for loop for the files from the i-th on: the object
\* collected, whether a statement threw outside the inner try, and the
\* download requests made.
RECURSIVE collect(_, _, _, _, _)
collect(key, files, downloads, i, collected) ==
  IF i > Len(files) THEN [value |-> collected, threw |-> FALSE, requests |-> <<>>]
  ELSE IF ReadThrows(files[i]) THEN [value |-> collected, threw |-> TRUE, requests |-> <<>>]
  ELSE IF Get(files[i], "type") # Str(<<"f", "i", "l", "e">>)
    THEN collect(key, files, downloads, i + 1, collected)
  ELSE IF Get(files[i], "name").k # "string"
    THEN [value |-> collected, threw |-> TRUE, requests |-> <<>>]
  ELSE IF \A suffix \in Suffixes(key) : ~endsWith(Get(files[i], "name").s, suffix)
    THEN collect(key, files, downloads, i + 1, collected)
  ELSE
    LET name == Get(files[i], "name").s
        got == downloads[i].kind = "response"
        content == IF key = "examples" /\ endsWith(name, <<".", "y", "a", "m", "l">>)
                     THEN Yaml(downloads[i].data) ELSE downloads[i].data
        rest == collect(key, files, downloads, i + 1,
                        IF got THEN (name :> content) @@ collected ELSE collected)
    IN [rest EXCEPT !.requests = <<got>> \o @]

\* this.cache.set(key, schemas) after the loop, whatever it collected.
store(c, key, value, made) == Set(c, key, Obj(value))

\* fetchSchemas, fetchExamples and fetchCapOrdDocs, which differ in the
\* cache key, the source and the suffixes. o.list is what the request of
\* the directory listing comes back with, o.downloads what the request of
\* each file does, o.written whether fs.writeFile succeeds.
fetchFiles(c, key, o) ==
  LET caught(c1) == IF key \in DOMAIN c1 THEN c1 ELSE Set(c1, key, Obj(<<>>))
  IN IF o.list.kind # "response" THEN Fetched(caught(c), FALSE, <<FALSE>>)
     ELSE IF ~Iterable(o.list.data) THEN Fetched(caught(c), FALSE, <<TRUE>>)
     ELSE
       CHOOSE run \in
         {IF loop.threw THEN Fetched(caught(c), FALSE, <<TRUE>> \o loop.requests)
          ELSE Fetched(store(c, key, loop.value, loop.requests), FALSE,
                       <<TRUE>> \o loop.requests) :
          loop \in {collect(key, Elements(o.list.data), o.downloads, 1, <<>>)}} : TRUE

NoRequests == [key \in CacheKeys |-> <<>>]

\* The message of the error fetchSpecification throws, and of the error
\* of fs.writeFile.
NoSpecification == "No specification data available"

WriteFailed == "EACCES: permission denied"

\* The fetch methods in the order refreshDocumentation awaits them.
FetchOrder == <<"specification", "schemas", "examples", "capDocs">>

fetch(c, key, o) ==
  IF key = "specification" THEN indexerFetchSpecification(c, o) ELSE fetchFiles(c, key, o)

\* refreshDocumentation from the i-th fetch on; outcomes[key] is what the
\* requests of that fetch come back with, saved whether meta.json is
\* written. A fetch that throws ends it.
RECURSIVE refreshFrom(_, _, _, _, _)
refreshFrom(c, made, outcomes, saved, i) ==
  IF i > Len(FetchOrder)
    THEN [cache |-> c, threw |-> ~saved, requests |-> made, saved |-> saved,
          fault |-> IF saved THEN "" ELSE WriteFailed]
  ELSE
    CHOOSE next \in
      {IF run.threw
         THEN [cache |-> run.cache, threw |-> TRUE, saved |-> FALSE,
               requests |-> [made EXCEPT ![FetchOrder[i]] = run.requests],
               fault |-> NoSpecification]
         ELSE refreshFrom(run.cache, [made EXCEPT ![FetchOrder[i]] = run.requests],
                          outcomes, saved, i + 1) :
       run \in {fetch(c, FetchOrder[i], outcomes[FetchOrder[i]])}} : TRUE

refreshDocumentation(c, outcomes, saved) == refreshFrom(c, NoRequests, outcomes, saved, 1)

\* Date.now() when meta.json was written; how long ago that is, is an
\* input of initialize.
SomeTime == Num(1)

NoData == [k |-> "none"]

\* loadCachedData: disk.meta is the lastUpdated of meta.json, the other
\* fields the content of the files of the cache directory, NoData for a
\* file that is not there, NotJson for one that does not parse.
loadCachedData(c, disk) ==
  IF disk.meta = NoData THEN [cache |-> c, lastUpdated |-> Null]
  ELSE
    LET c1 == IF disk.specification = NoData THEN c
              ELSE Set(c, "specification", disk.specification)
        c2 == IF disk.schemas = NoData THEN c1 ELSE Set(c1, "schemas", disk.schemas)
        c3 == IF disk.examples = NoData THEN c2 ELSE Set(c2, "examples", disk.examples)
    IN [cache |-> IF disk.schemas = NotJson THEN c1
                  ELSE IF disk.examples = NotJson THEN c2 ELSE c3,
        lastUpdated |-> disk.meta]

\* cache.get(key) || fallback
orDefault(c, key, default) ==
  IF key \in DOMAIN c /\ Truthy(c[key]) THEN c[key] ELSE default

Default(key) ==
  IF key = "specification" THEN Str(<<"S", "p", "e", "c", "i", "f", "i", "c", "a", "t", "i", "o", "n", " ", "n", "o", "t", " ", "a", "v", "a", "i", "l", "a", "b", "l", "e">>) ELSE Obj(<<>>)

\* getSpecificationDocs, getOrdSchemas, getExamples, getCapDocs.
getDocs(c, key, o) ==
  IF key \in DOMAIN c THEN Fetched(c, FALSE, <<>>) ELSE fetch(c, key, o)

(***************************************************************************)
(* What the network and the disk come back with                            *)
(***************************************************************************)
Data == Str(<<"{", "}">>)

File(name) == Obj([type |-> Str(<<"f", "i", "l", "e">>), name |-> Str(name), download_url |-> Url])

FirstFile(key) ==
  CASE key = "schemas" -> <<"a", ".", "j", "s", "o", "n">>
    [] key = "examples" -> <<"a", ".", "j", "s", "o", "n">>
    [] OTHER -> <<"a", ".", "m", "d">>

SecondFile(key) ==
  CASE key = "schemas" -> <<"b", ".", "j", "s", "o", "n">>
    [] key = "examples" -> <<"b", ".", "y", "a", "m", "l">>
    [] OTHER -> <<"b", ".", "m", "d">>

SpecOutcomes ==
  {[get |-> Response(SpecV1), written |-> TRUE, fallback |-> Fallback],
   [get |-> Response(SpecV2), written |-> TRUE, fallback |-> Fallback],
   [get |-> Response(SpecV2), written |-> FALSE, fallback |-> Fallback],
   [get |-> NetworkError, written |-> TRUE, fallback |-> Fallback],
   [get |-> Timeout, written |-> FALSE, fallback |-> Fallback],
   [get |-> Status(404), written |-> TRUE, fallback |-> Undef]}

Listing(list, downloads, written) == [list |-> list, downloads |-> downloads, written |-> written]

FileOutcomes(key) ==
  LET a == File(FirstFile(key))
      b == File(SecondFile(key))
  IN {Listing(NetworkError, <<>>, TRUE),
      Listing(Response(Arr(<<>>)), <<>>, TRUE),
      Listing(Response(Arr(<<a>>)), <<Response(Data)>>, TRUE),
      Listing(Response(Arr(<<a>>)), <<NetworkError>>, TRUE),
      Listing(Response(Arr(<<a, b>>)), <<Response(Data), Response(Data)>>, FALSE),
      Listing(Response(Arr(<<a, b>>)), <<Response(Data), Status(404)>>, TRUE),
      Listing(Response(Arr(<<Obj([type |-> Str(<<"d", "i", "r">>), name |-> Str(<<"s", "u", "b">>)]),
                             File(<<"R", "E", "A", "D", "M", "E", ".", "t", "x", "t">>)>>)), <<NoFetch, NoFetch>>, TRUE),
      Listing(Response(Obj([message |-> Text])), <<>>, TRUE)}

Outcomes(key) == IF key = "specification" THEN SpecOutcomes ELSE FileOutcomes(key)

RefreshOutcomes ==
  {[key \in CacheKeys |-> CASE key = "specification" -> s
                            [] key = "schemas" -> f[1]
                            [] key = "examples" -> f[2]
                            [] OTHER -> f[3]] :
     s \in SpecOutcomes,
     f \in FileOutcomes("schemas") \X FileOutcomes("examples") \X FileOutcomes("capDocs")}

Disks ==
  {[meta |-> m, specification |-> s, schemas |-> j, examples |-> e] :
     m \in {NoData, SomeTime},
     s \in {NoData, SpecV1},
     j \in {NoData, NotJson, Obj(FirstFile("schemas") :> Data)},
     e \in {NoData, Obj(FirstFile("examples") :> Data)}}

(***************************************************************************)
(* The indexer from its construction on                                    *)
(***************************************************************************)
IndexerInit ==
  /\ pc = "constructed"
  /\ cache = <<>>
  /\ before = <<>>
  /\ lastUpdated = Null
  /\ op = "constructor"
  /\ requests = NoRequests
  /\ response = NoResponse
  /\ body = Undef
  /\ sent = <<>>
  /\ raised = FALSE
  /\ catalog = ORD_CONCEPTS
  /\ metadata = Undef
  /\ strict = FALSE
  /\ result = FreshResult(FALSE)
  /\ rules = NewRules
  /\ previous = {}
  /\ calls = 0
  /\ request = NoRequest
  /\ fetched = NoFetch
  /\ packageJson = Undef
  /\ suggestionLevel = "detailed"

IndexerUnchanged ==
  UNCHANGED <<metadata, strict, result, raised, validatorVars, catalog, request, fetched,
              projectVars, httpVars>>

\* initialize, up to the end of loadCachedData.
LoadCachedData ==
  /\ pc = "constructed"
  /\ \E disk \in Disks :
        \E loaded \in {loadCachedData(cache, disk)} :
           /\ cache' = loaded.cache
           /\ lastUpdated' = loaded.lastUpdated
  /\ before' = cache
  /\ op' = "loadCachedData"
  /\ requests' = NoRequests
  /\ response' = NoResponse
  /\ pc' = "loaded"
  /\ IndexerUnchanged

\* A call of refreshDocumentation ends.
Refreshed(run) ==
  /\ cache' = run.cache
  /\ before' = cache
  /\ lastUpdated' = IF run.saved THEN SomeTime ELSE lastUpdated
  /\ requests' = run.requests
  /\ response' = IF run.threw THEN Thrown(Error(<<Lit(run.fault)>>)) ELSE Returned(Undef)

\* The rest of initialize: the refresh if the cache is older than a day or
\* of no known age; stale is whether a day has passed since lastUpdated.
Initialize ==
  /\ pc = "loaded"
  /\ \E stale \in BOOLEAN :
        IF lastUpdated = Null \/ stale
          THEN \E outcomes \in RefreshOutcomes, saved \in BOOLEAN :
                  \E run \in {refreshDocumentation(cache, outcomes, saved)} : Refreshed(run)
          ELSE /\ before' = cache
               /\ requests' = NoRequests
               /\ response' = Returned(Undef)
               /\ UNCHANGED <<cache, lastUpdated>>
  /\ op' = "initialize"
  /\ pc' = "ready"
  /\ IndexerUnchanged

\* A call of the get method of a key.
GetDocs(name, key) ==
  /\ pc = "ready"
  /\ \E o \in Outcomes(key) :
        \E run \in {getDocs(cache, key, o)} :
           /\ cache' = run.cache
           /\ requests' = [NoRequests EXCEPT ![key] = run.requests]
           /\ response' = IF run.threw
                            THEN Thrown(Error(<<Lit(NoSpecification)>>))
                            ELSE Returned(orDefault(run.cache, key, Default(key)))
  /\ before' = cache
  /\ op' = name
  /\ UNCHANGED <<pc, lastUpdated>>
  /\ IndexerUnchanged

GetSpecificationDocs == GetDocs("getSpecificationDocs", "specification")

GetOrdSchemas == GetDocs("getOrdSchemas", "schemas")

GetExamples == GetDocs("getExamples", "examples")

GetCapDocs == GetDocs("getCapDocs", "capDocs")

IndexerNext ==
  \/ LoadCachedData
  \/ Initialize
  \/ GetSpecificationDocs
  \/ GetOrdSchemas
  \/ GetExamples
  \/ GetCapDocs

IndexerSpec == IndexerInit /\ [][IndexerNext]_vars

\* The key a get method reads.
KeyOf(method) ==
  CASE method = "getSpecificationDocs" -> "specification"
    [] method = "getOrdSchemas" -> "schemas"
    [] method = "getExamples" -> "examples"
    [] OTHER -> "capDocs"

GetMethods == {"getSpecificationDocs", "getOrdSchemas", "getExamples", "getCapDocs"}

\* A get method called when the cache had an entry for its key made no
\* request and left the cache as it was.
GetFetchesOnlyWhenMissing ==
  op \in GetMethods /\ KeyOf(op) \in DOMAIN before =>
    requests = NoRequests /\ cache = before

\* A key that had a value when the method was called, and for which a
\* request of the method failed, has that value still.
FailureKeepsCachedValue ==
  \A key \in CacheKeys :
     (key \in DOMAIN before /\ \E i \in 1..Len(requests[key]) : ~requests[key][i])
       => key \in DOMAIN cache /\ cache[key] = before[key]

\* C30: getSpecificationDocs, getOrdSchemas, getExamples and getCapDocs
\* fetch only when the cache has no entry for their key; and whenever a
\* network request made while fetching a key fails, the value the cache had
\* for the key is left unchanged.
C30_CacheKeptOnFailure == GetFetchesOnlyWhenMissing /\ FailureKeepsCachedValue

\* The refresh of initialize found the listing of the schemas but not the one file it
\* lists, and replaced the schemas the cache had by an empty object.
C30_CachedSchemasLost ==
  /\ op = "initialize"
  /\ "schemas" \in DOMAIN before
  /\ before["schemas"] = Obj(<<"a", ".", "j", "s", "o", "n">> :> Data)
  /\ requests["schemas"] = <<TRUE, FALSE>>
  /\ cache["schemas"] = Obj(<<>>)
====
